---- MODULE Spec2Model ----
(***************************************************************************)
(* Model of the dependency vulnerability pipeline of SecurityAgent:         *)
(*   - OSSIndexTool (src/src/agents/dependency_search_tool.py): batching,   *)
(*     retry and aggregation of the vulnerability lookup;                   *)
(*   - GitHubUvLockReaderURLMinimal (src/src/agents/                        *)
(*     fetch_dependencies_tool.py): locator validation, tree listing,       *)
(*     fallback traversal, lockfile fetch.                                  *)
(* Strings the code inspects character by character (hosts, paths) are      *)
(* sequences of one-character strings.                                      *)
(***************************************************************************)
EXTENDS Integers, Sequences, FiniteSets, TLC

\* ------------------------------------------------------------------ bounds
MaxPurls == 3
MaxBatch == 2
MaxRetries == 2
\* the POST attempts one scan of the model can need at most
MaxPosts == 6

\* ------------------------------------------------------------ small helpers
Min(a, b) == IF a < b THEN a ELSE b

RECURSIVE Flatten(_)
Flatten(ss) == IF ss = <<>> THEN <<>> ELSE Head(ss) \o Flatten(Tail(ss))

Range(s) == { s[k] : k \in DOMAIN s }

\* =========================================================================
\*  Strings as sequences of characters
\* =========================================================================

StartsWith(s, pre) == Len(s) >= Len(pre) /\ SubSeq(s, 1, Len(pre)) = pre

EndsWith(s, suf) ==
    Len(s) >= Len(suf) /\ SubSeq(s, Len(s) - Len(suf) + 1, Len(s)) = suf

\* Python's  sub in s
Contains(s, sub) ==
    \E k \in 0..(Len(s) - Len(sub)) : SubSeq(s, k + 1, k + Len(sub)) = sub

\* Python's  s.split(c)  for a one-character separator
RECURSIVE Split(_, _)
Split(s, c) ==
    IF \A k \in DOMAIN s : s[k] # c THEN << s >>
    ELSE LET k == CHOOSE k \in DOMAIN s : s[k] = c /\ \A j \in 1..(k - 1) : s[j] # c
         IN  << SubSeq(s, 1, k - 1) >> \o Split(SubSeq(s, k + 1, Len(s)), c)

RemoveSuffix(s, suf) ==
    IF EndsWith(s, suf) THEN SubSeq(s, 1, Len(s) - Len(suf)) ELSE s

\* Optional values: None is the empty set, a present value v is {v}.
None == {}
Some(v) == {v}
Val(o) == CHOOSE v \in o : TRUE

S_http == << "h", "t", "t", "p" >>
S_https == S_http \o << "s" >>
S_ftp == << "f", "t", "p" >>
S_github_com == << "g", "i", "t", "h", "u", "b", ".", "c", "o", "m" >>
S_gitlab_com == << "g", "i", "t", "l", "a", "b", ".", "c", "o", "m" >>
S_evil_host == S_github_com \o << ".", "e", "v", "i", "l", ".", "n", "e", "t" >>
S_octo == << "o", "c", "t", "o" >>
S_app == << "a", "p", "p" >>
S_dot_git == << ".", "g", "i", "t" >>
S_tree == << "t", "r", "e", "e" >>
S_dev == << "d", "e", "v" >>
S_HEAD == << "H", "E", "A", "D" >>
S_uv_lock == << "u", "v", ".", "l", "o", "c", "k" >>
S_readme == << "R", "E", "A", "D", "M", "E", ".", "m", "d" >>
S_slash == << "/" >>

\* Truthiness of an optional string / an optional character sequence.
TruthyS(o) == o # None /\ Val(o) # ""
TruthyQ(o) == o # None /\ Val(o) # <<>>

\* a or b  on optional strings
OrS(a, b) == IF TruthyS(a) THEN a ELSE b

Separators == {"-", "_", "."}
Blanks == {" "}

UpperLetters ==
    << "A", "B", "C", "D", "E", "F", "G", "H", "I", "J", "K", "L", "M", "N", "O",
       "P", "Q", "R", "S", "T", "U", "V", "W", "X", "Y", "Z" >>
LowerLetters ==
    << "a", "b", "c", "d", "e", "f", "g", "h", "i", "j", "k", "l", "m", "n", "o",
       "p", "q", "r", "s", "t", "u", "v", "w", "x", "y", "z" >>

\* str.lower() on one character
LowerChar(c) ==
    IF \E k \in DOMAIN UpperLetters : UpperLetters[k] = c
      THEN LowerLetters[CHOOSE k \in DOMAIN UpperLetters : UpperLetters[k] = c]
      ELSE c

Lower(s) == [k \in DOMAIN s |-> LowerChar(s[k])]

RECURSIVE LStrip(_)
LStrip(s) == IF s # <<>> /\ Head(s) \in Blanks THEN LStrip(Tail(s)) ELSE s

RECURSIVE RStrip(_)
RStrip(s) ==
    IF s # <<>> /\ s[Len(s)] \in Blanks THEN RStrip(SubSeq(s, 1, Len(s) - 1)) ELSE s

Strip(s) == RStrip(LStrip(s))

\* =========================================================================
\*  Vulnerability batch client: OSSIndexTool
\* =========================================================================

VARIABLES
    purls,              \* _run: the locators built from input.packages
    max_batch_size,     \* OSSIndexInput.max_batch_size
    max_retries,        \* OSSIndexInput.max_retries
    lpc,                \* position of the lookup: start, loop, post, sleep,
                        \* aggregate, done, raised, off
    i,                  \* _run: loop variable of range(0, len(purls), size)
    batch,              \* _fetch_batch: coordinates
    attempt,            \* _fetch_batch: loop variable of range(1, retries+1)
    fb_errors,          \* _fetch_batch: errors
    fb_rate_limited,    \* _fetch_batch: rate_limited
    ret,                \* value returned by _fetch_batch to _run
    results,            \* _run: results
    rate_limited_seen,  \* _run: rate_limited_seen
    all_errors,         \* _run: all_errors
    posts,              \* the POST attempts sent so far, in order
    batches,            \* the batches handed to _fetch_batch, in order
    context,            \* OSSIndexFromContextTool._run: the packages of the
                        \* payload (<< >> when OSSIndexTool is called directly)
    input_packages,     \* OSSIndexInput.packages
    auth_email,         \* OSSIndexInput.auth_email
    auth_token,         \* OSSIndexInput.auth_token
    headers,            \* _run: headers
    returned,           \* the values _fetch_batch returned to _run, in order
    retry_backoff_seconds,  \* OSSIndexInput.retry_backoff_seconds, as a fraction
    sleeps              \* the backoff sleeps that have ended, in order

lookupVars == << purls, max_batch_size, max_retries, lpc, i, batch, attempt,
                 fb_errors, fb_rate_limited, ret, results, rate_limited_seen,
                 all_errors, posts, batches, context, input_packages, auth_email,
                 auth_token, headers, returned, retry_backoff_seconds, sleeps >>

\* what no step of the lookup assigns
inputVars == << context, auth_email, auth_token, max_batch_size, max_retries,
                retry_backoff_seconds >>

VARIABLES
    repo_url,       \* UvLockReaderInput.repo_url as urlparse splits it
    rpc,            \* position of the reader: input, parse, tree, fallback,
                    \* contents, done, rejected, raised, off
    error,          \* what ended the scan: none, validation, parse, not-found, http
    owner, repo, ref,   \* _run: the result of _parse_repo_url
    t_json,         \* _run: the decoded answer of the recursive tree request
    truncated,      \* _run: truncated
    paths,          \* _run: paths
    queue,          \* _run: queue of the fallback traversal
    seen,           \* _run: seen of the fallback traversal
    pidx,           \* _run: position of the loop  for p in paths
    files_scanned,  \* _run: files_scanned
    all_packages,   \* _run: all_packages
    result,         \* the MinimalResult returned, None before
    requests,       \* the GET requests answered so far, in order
    trees           \* the provider: what /git/trees/<sha> lists, by tree identifier

readerVars == << repo_url, rpc, error, owner, repo, ref, t_json, truncated, paths,
                 queue, seen, pidx, files_scanned, all_packages, result, requests,
                 trees >>

VARIABLES
    lock_texts,     \* the decoded text of each lockfile of paths, when the texts
                    \* are the input (<< >> when the provider serves them)
    pkgs,           \* _run: pkgs, the packages of the lockfile parsed last
    strategy,       \* the return statement that call ended at: structured (line
                    \* 212) or regex (line 229); none before the first call
    passed_in       \* _dedupe_global: packages, the list passed in with its
                    \* records as they are when the call returns (<< >> before)

parserVars == << lock_texts, pkgs, strategy, passed_in >>

VARIABLES
    _session,       \* SessionManager._session: None or the ClientSession held
    _streams,       \* SessionManager._streams: None or the stream context held
    _tools,         \* SessionManager._tools: None or the tools cached, named by
                    \* the session they are bound to
    contexts,       \* the stream contexts streamablehttp_client has built, each
                    \* with the token of its Authorization header and its state
    sessions,       \* the ClientSession objects built, each with its stream
                    \* context, its state and whether initialize() completed
    task,           \* the callers of the shared instance: position and locals
    calls           \* the calls made so far

sessionVars == << _session, _streams, _tools, contexts, sessions, task, calls >>

\* ---- Package and its locator (dependency_search_tool.py, lines 19-50)
S_pkg == << "p", "k", "g", ":" >>
S_at == << "@" >>
S_PyPI == << "P", "y", "P", "I" >>
S_Flask == << "F", "l", "a", "s", "k" >>
S_flask == << "f", "l", "a", "s", "k" >>
S_requests == << "r", "e", "q", "u", "e", "s", "t", "s" >>
S_2_3_0 == << "2", ".", "3", ".", "0" >>
S_2_0 == << "2", ".", "0" >>

\* The table as the set of its (key, value) pairs.
SUPPORTED_PURL_TYPES ==
    { << << "P", "y", "P", "I" >>, << "p", "y", "p", "i" >> >>,
      << << "N", "P", "M" >>, << "n", "p", "m" >> >>,
      << << "n", "p", "m" >>, << "n", "p", "m" >> >>,
      << << "M", "a", "v", "e", "n" >>, << "m", "a", "v", "e", "n" >> >>,
      << << "N", "u", "G", "e", "t" >>, << "n", "u", "g", "e", "t" >> >>,
      << << "R", "u", "b", "y", "G", "e", "m", "s" >>, << "g", "e", "m" >> >>,
      << << "C", "a", "r", "g", "o" >>, << "c", "a", "r", "g", "o" >> >>,
      << << "C", "o", "n", "d", "a" >>, << "c", "o", "n", "d", "a" >> >>,
      << << "G", "o", "l", "a", "n", "g" >>, << "g", "o", "l", "a", "n", "g" >> >>,
      << << "C", "R", "A", "N" >>, << "c", "r", "a", "n" >> >>,
      << << "R", "P", "M" >>, << "r", "p", "m" >> >>,
      << << "S", "w", "i", "f", "t" >>, << "s", "w", "i", "f", "t" >> >> }

\* dict.get(key, default)
Get(table, key, default) ==
    IF \E e \in table : e[1] = key
      THEN (CHOOSE e \in table : e[1] = key)[2]
      ELSE default

\* a validator that strips and accepts what is left
nonemptyUnchecked(v) == IF v = None THEN None ELSE Some(Strip(Val(v)))

\* The validator of name and version: the stripped value, None when it raises.
nonempty(v) ==
    IF v = None \/ Val(v) = <<>> \/ Strip(Val(v)) = <<>> THEN None
    ELSE Some(Strip(Val(v)))

\* Package(name=..., version=..., ecosystem=...) on optional values: the model
\* instance, None when validation raises (ecosystem is any str, unvalidated).
Package(name, version, ecosystem) ==
    IF nonempty(name) = None \/ nonempty(version) = None \/ ecosystem = None
      THEN None
      ELSE Some([name |-> Val(nonempty(name)), version |-> Val(nonempty(version)),
                 ecosystem |-> Val(ecosystem)])

\* the type taken from the ecosystem as it is written
PurlTypeKeepsCase(ecosystem) == Get(SUPPORTED_PURL_TYPES, ecosystem, ecosystem)

\* SUPPORTED_PURL_TYPES.get(self.ecosystem, self.ecosystem).lower()
PurlType(ecosystem) == Lower(Get(SUPPORTED_PURL_TYPES, ecosystem, ecosystem))

\* Package.to_purl
to_purl(pkg) ==
    S_pkg \o PurlType(pkg.ecosystem) \o S_slash \o pkg.name \o S_at \o pkg.version

\* The packages of a direct call: a list of n packages, a repeated one included.
InputPackage(k) ==
    CASE k % 3 = 1 -> Val(Package(Some(S_flask), Some(S_2_3_0), Some(S_PyPI)))
      [] k % 3 = 2 -> Val(Package(Some(S_requests), Some(S_2_0), Some(S_PyPI)))
      [] OTHER     -> Val(Package(Some(S_flask), Some(S_2_3_0), Some(S_PyPI)))

PackageList(n) == [k \in 1..n |-> InputPackage(k)]

\* The locators of those packages.
PurlName(k) == to_purl(InputPackage(k))

PurlList(n) == [k \in 1..n |-> PurlName(k)]

\* lines 161-170: the locator of every package, in order (to_purl never raises
\* on a validated Package, so the except branch drops nothing).
BuildPurls(ps) == [k \in 1..Len(ps) |-> to_purl(ps[k])]

\* base64.b64encode(f"{email}:{token}".encode()).decode(), kept as the pair it
\* encodes: equal credentials give equal values, different ones different values.
Basic(email, token) == [scheme |-> "Basic", userpass |-> << email, ":", token >>]

\* lines 172-180: Authorization only if both auth_email and auth_token are truthy
BuildHeaders(email, token) ==
    [content_type |-> "application/json", accept |-> "application/json",
     authorization |-> IF TruthyS(email) /\ TruthyS(token)
                         THEN Some(Basic(Val(email), Val(token)))
                         ELSE None]

NoHeaders == [content_type |-> "", accept |-> "", authorization |-> None]

\* What a POST attempt can end as: a status with a body, or an exception raised
\* by client.post.  "200" has a body resp.json() decodes to a list of report
\* items, "200-undecodable" has a body on which resp.json() raises.
Outcomes == {"200", "200-undecodable", "429", "500", "transport"}

StatusOf(o) == CASE o = "200" -> 200
                 [] o = "200-undecodable" -> 200
                 [] o = "429" -> 429
                 [] o = "500" -> 500
                 [] OTHER -> 0

\* the slice one locator short
SliceOffByOne(p, from, size) == SubSeq(p, from + 1, Min(from + size - 1, Len(p)))
\* purls[i : i + size] of Python, i counted from 0.
Slice(p, from, size) == SubSeq(p, from + 1, Min(from + size, Len(p)))

\* The values of range(0, n, step) for step > 0, as a sequence.
RECURSIVE RangeFrom(_, _, _)
RangeFrom(from, n, step) ==
    IF from < n THEN <<from>> \o RangeFrom(from + step, n, step) ELSE <<>>

\* The batches the loop of _run builds for a locator list and a batch size >= 1.
Partition(p, size) ==
    LET starts == RangeFrom(0, Len(p), size)
    IN  [k \in 1..Len(starts) |-> Slice(p, starts[k], size)]

\* The items of a 200 answer: one report per coordinate, echoing it.  An item
\* is kept by its two keys, "coordinates" and "purl"; << >> is a key that is
\* missing or empty.
ItemsFor(coords) ==
    [k \in 1..Len(coords) |-> [coordinates |-> coords[k], purl |-> <<>>]]

\* f"HTTP {status} for batch (size=...)" and f"Request error: ..."
HttpError(status, coords) == [kind |-> "http", status |-> status, size |-> Len(coords)]
RequestError == [kind |-> "request", status |-> 0, size |-> 0]

\* ceil(n / m) for m >= 1
CeilDiv(n, m) == (n + m - 1) \div m

\* OSSIndexInput.retry_backoff_seconds: 1.5 when the caller gives none
DefaultBackoff == [num |-> 3, den |-> 2]
Backoffs == { DefaultBackoff, [num |-> 2, den |-> 1] }

NoReturn == [items |-> <<>>, rate_limited |-> FALSE, errors |-> <<>>]

LookupInit ==
    /\ \E n \in 0..MaxPurls : input_packages = PackageList(n)
    /\ max_batch_size \in -1..MaxBatch
    /\ max_retries \in 0..MaxRetries
    /\ retry_backoff_seconds = DefaultBackoff
    /\ max_batch_size >= 1 =>
          CeilDiv(Len(input_packages), max_batch_size) * max_retries <= MaxPosts
    /\ context = <<>>
    /\ auth_email = None /\ auth_token = None
    /\ headers = NoHeaders
    /\ purls = <<>>
    /\ lpc = "start"
    /\ i = 0
    /\ batch = <<>>
    /\ attempt = 0
    /\ fb_errors = <<>>
    /\ fb_rate_limited = FALSE
    /\ ret = [items |-> <<>>, rate_limited |-> FALSE, errors |-> <<>>]
    /\ results = <<>>
    /\ rate_limited_seen = FALSE
    /\ all_errors = <<>>
    /\ posts = <<>>
    /\ batches = <<>>
    /\ returned = <<>>
    /\ sleeps = <<>>
    \* the session manager is not in use
    /\ _session = None /\ _streams = None /\ _tools = None
    /\ contexts = <<>> /\ sessions = <<>> /\ task = <<>> /\ calls = 0
    \* the reader is not running
    /\ repo_url = [scheme |-> <<>>, netloc |-> <<>>, path |-> <<>>]
    /\ rpc = "off" /\ error = "none"
    /\ owner = <<>> /\ repo = <<>> /\ ref = <<>>
    /\ t_json = [truncated |-> FALSE, tree |-> <<>>, sha |-> <<>>]
    /\ truncated = FALSE /\ paths = <<>> /\ queue = <<>> /\ seen = {} /\ pidx = 1 /\ trees = <<>>
    /\ files_scanned = <<>> /\ all_packages = <<>> /\ result = {}
    /\ requests = <<>>
    /\ lock_texts = <<>> /\ pkgs = <<>> /\ strategy = "none" /\ passed_in = <<>>

\* _run up to the loop: the locators and the headers are built, then
\* range(0, len(purls), 0) raises ValueError.
RunBegin ==
    /\ lpc = "start"
    /\ purls' = BuildPurls(input_packages)
    /\ headers' = BuildHeaders(auth_email, auth_token)
    /\ lpc' = IF max_batch_size = 0 THEN "raised" ELSE "loop"
    /\ UNCHANGED << input_packages, i, batch, attempt, fb_errors,
                    fb_rate_limited, ret,
                    results, rate_limited_seen, all_errors, posts, batches,
                    returned >>
    /\ UNCHANGED inputVars
    /\ UNCHANGED sleeps
    /\ UNCHANGED readerVars
    /\ UNCHANGED sessionVars
    /\ UNCHANGED parserVars

\* A further value of range(0, len(purls), max_batch_size): _fetch_batch is
\* called with the slice; with retries < 1 its loop body never runs.
NextBatch ==
    /\ lpc = "loop"
    /\ max_batch_size > 0
    /\ i < Len(purls)
    /\ batch' = Slice(purls, i, max_batch_size)
    /\ batches' = Append(batches, batch')
    /\ fb_errors' = <<>>
    /\ fb_rate_limited' = FALSE
    /\ IF max_retries >= 1
         THEN /\ lpc' = "post"
              /\ attempt' = 1
              /\ ret' = ret
         ELSE /\ lpc' = "aggregate"
              /\ attempt' = attempt
              /\ ret' = [items |-> <<>>, rate_limited |-> FALSE, errors |-> <<>>]
    /\ UNCHANGED << purls, input_packages, headers, i, results, rate_limited_seen,
                    all_errors, posts, returned >>
    /\ UNCHANGED inputVars
    /\ UNCHANGED sleeps
    /\ UNCHANGED readerVars
    /\ UNCHANGED sessionVars
    /\ UNCHANGED parserVars

\* What a failed attempt leaves behind: the backoff sleep, or the end of the
\* loop and the return of ([], rate_limited, errors).
\* the errors of an exhausted batch dropped
AfterFailureDropsErrors(errs, rl) ==
    IF attempt < max_retries
      THEN /\ lpc' = "sleep"
           /\ ret' = ret
      ELSE /\ lpc' = "aggregate"
           /\ ret' = [items |-> <<>>, rate_limited |-> rl, errors |-> <<>>]
\* the loop as range(1, retries + 2)
AfterFailureOneMore(errs, rl) ==
    IF attempt <= max_retries
      THEN /\ lpc' = "sleep"
           /\ ret' = ret
      ELSE /\ lpc' = "aggregate"
           /\ ret' = [items |-> <<>>, rate_limited |-> rl, errors |-> errs]
AfterFailure(errs, rl) ==
    IF attempt < max_retries
      THEN /\ lpc' = "sleep"
           /\ ret' = ret
      ELSE /\ lpc' = "aggregate"
           /\ ret' = [items |-> <<>>, rate_limited |-> rl, errors |-> errs]

\* the attempt as the provider sees it, sent without the headers of _run
SentWithoutHeaders(o) ==
    [batch |-> Len(batches), coords |-> batch, attempt |-> attempt, outcome |-> o,
     headers |-> IF attempt = 1 THEN headers ELSE NoHeaders]

\* client.post(OSS_INDEX_URL, json={"coordinates": coordinates},
\*             headers=headers, timeout=None)  as the provider sees it
Sent(o) ==
    [batch |-> Len(batches), coords |-> batch, attempt |-> attempt, outcome |-> o,
     headers |-> headers]

\* a return that hands back the answer without the errors of earlier attempts
SuccessWithoutErrors(items) == [items |-> items, rate_limited |-> FALSE, errors |-> <<>>]

\* return resp.json(), False, errors
Success(items) == [items |-> items, rate_limited |-> FALSE, errors |-> fb_errors]

\* One attempt of _fetch_batch that client.post ended, from the request to the
\* end of the loop body; items is what resp.json() gives for a decodable 200.
Answered(o, items) ==
    /\ lpc = "post"
    /\ posts' = Append(posts, Sent(o))
    /\ CASE o = "200" ->
              /\ ret' = Success(items)
              /\ lpc' = "aggregate"
              /\ UNCHANGED << fb_errors, fb_rate_limited >>
         [] o = "429" ->
              /\ fb_rate_limited' = TRUE
              /\ fb_errors' = Append(fb_errors, HttpError(429, batch))
              /\ AfterFailure(fb_errors', TRUE)
         [] o = "500" ->
              /\ fb_errors' = Append(fb_errors, HttpError(500, batch))
              /\ AfterFailure(fb_errors', fb_rate_limited)
              /\ UNCHANGED fb_rate_limited
         [] OTHER ->
              \* client.post or resp.json() raised: except Exception
              /\ fb_errors' = Append(fb_errors, RequestError)
              /\ AfterFailure(fb_errors', fb_rate_limited)
              /\ UNCHANGED fb_rate_limited
    /\ UNCHANGED << purls, input_packages, headers, i, batch, attempt, results,
                    rate_limited_seen, all_errors, batches, returned >>
    /\ UNCHANGED inputVars
    /\ UNCHANGED sleeps
    /\ UNCHANGED readerVars
    /\ UNCHANGED sessionVars
    /\ UNCHANGED parserVars

\* The attempt against a provider that echoes every coordinate it was sent.
Post(o) == Answered(o, ItemsFor(batch))

PostAttempt == \E o \in Outcomes : Post(o)

\* n ** k for a fraction n and k >= 0
RECURSIVE Pow(_, _)
Pow(n, k) ==
    IF k <= 0 THEN [num |-> 1, den |-> 1]
    ELSE [num |-> n.num * Pow(n, k - 1).num, den |-> n.den * Pow(n, k - 1).den]

\* a sleep one power short
SleepSecondsOnePowerShort(backoff, k) == Pow(backoff, k - 1)

\* backoff ** attempt
SleepSeconds(backoff, k) == Pow(backoff, k)

\* asyncio.sleep(backoff ** attempt) has ended: the next attempt.
Wake ==
    /\ lpc = "sleep"
    /\ sleeps' = Append(sleeps, [batch |-> Len(batches), attempt |-> attempt,
                                  seconds |-> SleepSeconds(retry_backoff_seconds, attempt)])
    /\ attempt' = attempt + 1
    /\ lpc' = "post"
    /\ UNCHANGED << purls, input_packages, headers, i, batch, fb_errors,
                    fb_rate_limited, ret, results, rate_limited_seen,
                    all_errors, posts, batches, returned >>
    /\ UNCHANGED inputVars
    /\ UNCHANGED readerVars
    /\ UNCHANGED sessionVars
    /\ UNCHANGED parserVars

\* coords = item.get("coordinates") or "";  purl = coords or item.get("purl") or ""
KeyOf(item) == IF item.coordinates # <<>> THEN item.coordinates ELSE item.purl

\* a merge that keeps the report a key already has
RECURSIVE MergeKeepsFirst(_, _)
MergeKeepsFirst(res, items) ==
    IF items = <<>> THEN res
    ELSE LET item == Head(items)
             purl == KeyOf(item)
         IN  IF purl = <<>> \/ purl \in DOMAIN res THEN MergeKeepsFirst(res, Tail(items))
             ELSE MergeKeepsFirst([p \in DOMAIN res \cup {purl} |->
                                     IF p = purl
                                       THEN [purl |-> purl,
                                             coordinates |-> item.coordinates]
                                       ELSE res[p]],
                                  Tail(items))

\* results[purl] = PackageReport(purl=purl, ...) for every item with a key.
RECURSIVE Merge(_, _)
Merge(res, items) ==
    IF items = <<>> THEN res
    ELSE LET item == Head(items)
             purl == KeyOf(item)
         IN  IF purl = <<>> THEN Merge(res, Tail(items))
             ELSE Merge([p \in DOMAIN res \cup {purl} |->
                            IF p = purl
                              THEN [purl |-> purl, coordinates |-> item.coordinates]
                              ELSE res[p]],
                        Tail(items))

\* The rest of the loop body of _run after _fetch_batch returned.
Aggregate ==
    /\ lpc = "aggregate"
    /\ returned' = Append(returned, ret)
    /\ rate_limited_seen' = (rate_limited_seen \/ ret.rate_limited)
    /\ all_errors' = all_errors \o ret.errors
    /\ results' = Merge(results, ret.items)
    /\ i' = i + max_batch_size
    /\ lpc' = "loop"
    /\ UNCHANGED << purls, input_packages, headers, batch, attempt, fb_errors,
                    fb_rate_limited, ret, posts, batches >>
    /\ UNCHANGED inputVars
    /\ UNCHANGED sleeps
    /\ UNCHANGED readerVars
    /\ UNCHANGED sessionVars
    /\ UNCHANGED parserVars

\* range exhausted (or empty, as with a negative step): the report is returned.
Finish ==
    /\ lpc = "loop"
    /\ max_batch_size < 0 \/ i >= Len(purls)
    /\ lpc' = "done"
    /\ UNCHANGED << purls, input_packages, headers, i, batch, attempt, fb_errors,
                    fb_rate_limited, ret, results, rate_limited_seen,
                    all_errors, posts, batches, returned >>
    /\ UNCHANGED inputVars
    /\ UNCHANGED sleeps
    /\ UNCHANGED readerVars
    /\ UNCHANGED sessionVars
    /\ UNCHANGED parserVars

LookupNext == RunBegin \/ NextBatch \/ PostAttempt \/ Wake \/ Aggregate \/ Finish

\* =========================================================================
\*  The lookup from the reader's summary: OSSIndexFromContextTool
\* =========================================================================

MaxContext == 3

\* OSSIndexInput: max_batch_size and max_retries when the caller gives none
DefaultMaxBatchSize == 128
DefaultMaxRetries == 3

S_Hex == << "H", "e", "x" >>
S_PYPI == << "P", "Y", "P", "I" >>
S_blank == << " " >>

\* the keys of SUPPORTED_PURL_TYPES, and ecosystems the table does not hold
\* (a key in another case, a name with capitals, the empty string)
KnownEcosystems == { e[1] : e \in SUPPORTED_PURL_TYPES }
OtherEcosystems == { S_Hex, S_PYPI, <<>> }

\* One package object of the payload; a key that is missing or null is None.
ContextPackage(name, version, ecosystem) ==
    [name |-> name, version |-> version, ecosystem |-> ecosystem]

ContextNames ==
    { Some(S_Flask), Some(S_flask), Some(S_blank \o S_flask \o S_blank),
      Some(S_blank), Some(<<>>), None }
ContextVersions == { Some(S_2_3_0), Some(S_2_0 \o S_blank), Some(<<>>), None }
ContextEcosystems == { Some(e) : e \in KnownEcosystems \cup OtherEcosystems } \cup {None}

\* The packages of a scan result as the payload carries them: Released ones,
\* a VCS or Local one (no name, no version, no ecosystem), and a Released one
\* whose version is the empty string.
ReleasedFlask == ContextPackage(Some(S_flask), Some(S_2_3_0), Some(S_PyPI))
ReleasedRequests == ContextPackage(Some(S_requests), Some(S_2_0), Some(S_PyPI))
Unnamed == ContextPackage(None, None, None)
Unversioned == ContextPackage(Some(S_requests), Some(<<>>), Some(S_PyPI))
ScanResultPackages == { ReleasedFlask, ReleasedRequests, Unnamed, Unversioned }

\* the credentials the tool was constructed with (email, api_key)
Credentials ==
    { << None, None >>, << Some("me@example.org"), None >>,
      << Some(""), Some("t0ken") >>, << Some("me@example.org"), Some("t0ken") >> }

IsContext(c) ==
    \/ \E n \in ContextNames, v \in ContextVersions, e \in ContextEcosystems :
          c = << ContextPackage(n, v, e) >>
    \/ \E k \in 0..MaxContext : \E f \in [1..k -> ScanResultPackages] : c = f

ContextInit ==
    /\ IsContext(context)
    /\ \E c \in Credentials : auth_email = c[1] /\ auth_token = c[2]
    /\ max_batch_size = DefaultMaxBatchSize
    /\ max_retries = DefaultMaxRetries
    /\ retry_backoff_seconds = DefaultBackoff
    /\ input_packages = <<>>
    /\ headers = NoHeaders
    /\ purls = <<>>
    /\ lpc = "context"
    /\ i = 0
    /\ batch = <<>>
    /\ attempt = 0
    /\ fb_errors = <<>>
    /\ fb_rate_limited = FALSE
    /\ ret = NoReturn
    /\ results = <<>>
    /\ rate_limited_seen = FALSE
    /\ all_errors = <<>>
    /\ posts = <<>>
    /\ batches = <<>>
    /\ returned = <<>>
    /\ sleeps = <<>>
    \* the session manager is not in use
    /\ _session = None /\ _streams = None /\ _tools = None
    /\ contexts = <<>> /\ sessions = <<>> /\ task = <<>> /\ calls = 0
    \* the reader is not running
    /\ repo_url = [scheme |-> <<>>, netloc |-> <<>>, path |-> <<>>]
    /\ rpc = "off" /\ error = "none"
    /\ owner = <<>> /\ repo = <<>> /\ ref = <<>>
    /\ t_json = [truncated |-> FALSE, tree |-> <<>>, sha |-> <<>>]
    /\ truncated = FALSE /\ paths = <<>> /\ queue = <<>> /\ seen = {} /\ pidx = 1 /\ trees = <<>>
    /\ files_scanned = <<>> /\ all_packages = <<>> /\ result = {}
    /\ requests = <<>>
    /\ lock_texts = <<>> /\ pkgs = <<>> /\ strategy = "none" /\ passed_in = <<>>

\* Package(name=obj.name, version=obj.version, ecosystem=obj.ecosystem)
PackageOf(obj) == Package(obj.name, obj.version, obj.ecosystem)

\* input_from_agent_context: the Package of every object in order; None when
\* the validation of the payload or of a Package raises.
input_from_agent_context(objs) ==
    IF \E k \in 1..Len(objs) : PackageOf(objs[k]) = None THEN None
    ELSE Some([k \in 1..Len(objs) |-> Val(PackageOf(objs[k]))])

\* OSSIndexFromContextTool._run up to the call of OSSIndexTool._run; a
\* validation error ends the call.
FromContext ==
    /\ lpc = "context"
    /\ IF input_from_agent_context(context) = None
         THEN lpc' = "invalid" /\ input_packages' = input_packages
         ELSE lpc' = "start" /\ input_packages' = Val(input_from_agent_context(context))
    /\ UNCHANGED << purls, headers, i, batch, attempt, fb_errors, fb_rate_limited,
                    ret, results, rate_limited_seen, all_errors, posts, batches,
                    returned >>
    /\ UNCHANGED inputVars
    /\ UNCHANGED sleeps
    /\ UNCHANGED readerVars
    /\ UNCHANGED sessionVars
    /\ UNCHANGED parserVars

ContextNext ==
    FromContext \/ RunBegin \/ NextBatch \/ PostAttempt \/ Wake \/ Aggregate \/ Finish

\* =========================================================================
\*  The lookup against a provider that need not echo or answer, under a
\*  caller that may cancel
\* =========================================================================

\* _fetch_batch: the timeout argument of client.post (line 135); None switches
\* the timeout of the request off, whatever the client was constructed with.
PostTimeout == None

CapitalFlask == Val(Package(Some(S_Flask), Some(S_2_3_0), Some(S_PyPI)))

\* A provider that answers with its own spelling of the coordinates (the name
\* lowercased), then an item that has only a "purl" key and an item with
\* neither key.
CanonicalItems(coords) ==
    [k \in 1..Len(coords) |-> [coordinates |-> Lower(coords[k]), purl |-> <<>>]]
    \o << [coordinates |-> <<>>, purl |-> coords[1]],
          [coordinates |-> <<>>, purl |-> <<>>] >>

ProviderInit ==
    /\ \E n \in 1..MaxPurls, capital \in BOOLEAN :
          input_packages = [k \in 1..n |-> IF capital /\ k = 1 THEN CapitalFlask
                                                               ELSE InputPackage(k)]
    /\ max_batch_size \in 1..MaxBatch
    /\ max_retries \in 1..MaxRetries
    /\ retry_backoff_seconds \in Backoffs
    /\ CeilDiv(Len(input_packages), max_batch_size) * max_retries <= MaxPosts
    /\ \E c \in Credentials : auth_email = c[1] /\ auth_token = c[2]
    /\ context = <<>>
    /\ headers = NoHeaders
    /\ purls = <<>>
    /\ lpc = "start"
    /\ i = 0
    /\ batch = <<>>
    /\ attempt = 0
    /\ fb_errors = <<>>
    /\ fb_rate_limited = FALSE
    /\ ret = NoReturn
    /\ results = <<>>
    /\ rate_limited_seen = FALSE
    /\ all_errors = <<>>
    /\ posts = <<>>
    /\ batches = <<>>
    /\ returned = <<>>
    /\ sleeps = <<>>
    \* the session manager is not in use
    /\ _session = None /\ _streams = None /\ _tools = None
    /\ contexts = <<>> /\ sessions = <<>> /\ task = <<>> /\ calls = 0
    \* the reader is not running
    /\ repo_url = [scheme |-> <<>>, netloc |-> <<>>, path |-> <<>>]
    /\ rpc = "off" /\ error = "none"
    /\ owner = <<>> /\ repo = <<>> /\ ref = <<>>
    /\ t_json = [truncated |-> FALSE, tree |-> <<>>, sha |-> <<>>]
    /\ truncated = FALSE /\ paths = <<>> /\ queue = <<>> /\ seen = {} /\ pidx = 1 /\ trees = <<>>
    /\ files_scanned = <<>> /\ all_packages = <<>> /\ result = {}
    /\ requests = <<>>
    /\ lock_texts = <<>> /\ pkgs = <<>> /\ strategy = "none" /\ passed_in = <<>>

\* The attempt answered with a status: 200 with the echo, 429 or 500.
PostStatus == \E o \in {"200", "429", "500"} : Post(o)

\* The attempt answered 200 with the provider's own spelling.
PostCanonical == Answered("200", CanonicalItems(batch))

\* The provider never answers the POST.  With a timeout the wait would end in
\* httpx.TimeoutException, caught by except Exception; with timeout=None
\* client.post never returns.
PostUnanswered ==
    IF PostTimeout = None
      THEN /\ lpc = "post"
           /\ posts' = Append(posts, Sent("none"))
           /\ lpc' = "hung"
           /\ UNCHANGED << purls, input_packages, headers, i, batch, attempt,
                           fb_errors, fb_rate_limited, ret, results,
                           rate_limited_seen, all_errors, batches, returned >>
           /\ UNCHANGED inputVars
           /\ UNCHANGED sleeps
           /\ UNCHANGED readerVars
           /\ UNCHANGED sessionVars
           /\ UNCHANGED parserVars
      ELSE Post("transport")

\* The caller cancels the task while _run waits in client.post or in
\* asyncio.sleep: CancelledError is no Exception, so no except clause of
\* _fetch_batch or _run catches it and it leaves _run; nothing is returned.
Cancel ==
    /\ lpc \in {"post", "sleep", "hung"}
    /\ lpc' = "cancelled"
    /\ UNCHANGED << purls, input_packages, headers, i, batch, attempt, fb_errors,
                    fb_rate_limited, ret, results, rate_limited_seen,
                    all_errors, posts, batches, returned >>
    /\ UNCHANGED inputVars
    /\ UNCHANGED sleeps
    /\ UNCHANGED readerVars
    /\ UNCHANGED sessionVars
    /\ UNCHANGED parserVars

\* the steps of _run itself
RunStep == RunBegin \/ NextBatch \/ Wake \/ Aggregate \/ Finish

\* what happens to a POST that was sent
PostStep == PostStatus \/ PostCanonical \/ PostUnanswered

ProviderNext ==
    \/ RunBegin \/ NextBatch \/ Wake \/ Aggregate \/ Finish
    \/ PostStatus \/ PostCanonical \/ PostUnanswered
    \/ Cancel

\* =========================================================================
\*  Lockfile parser and deduplicator (fetch_dependencies_tool.py)
\* =========================================================================

\* re.sub(r"[-_.]+", "-", n): every maximal run of separators becomes one "-".
RECURSIVE CollapseRuns(_)
CollapseRuns(s) ==
    IF s = <<>> THEN <<>>
    ELSE IF Head(s) \in Separators
           THEN IF Len(s) > 1 /\ s[2] \in Separators
                  THEN CollapseRuns(Tail(s))
                  ELSE << "-" >> \o CollapseRuns(Tail(s))
           ELSE << Head(s) >> \o CollapseRuns(Tail(s))

\* A normalization that keeps the case of the letters.
NormalizeKeepsCase(name) == CollapseRuns(Strip(name))

pep503_normalize(name) == CollapseRuns(Lower(Strip(name)))

\* A [[package]] table of a parsed lockfile; absent keys are None.
EmptySource == [type |-> None, url |-> None, repository |-> None, repo |-> None,
                resolved_reference |-> None, commit |-> None, rev |-> None]

EmptyEntry == [name |-> None, version |-> None, source |-> None, groups |-> None,
               category |-> None, direct |-> None, path |-> None, vcs |-> None,
               url |-> None, commit |-> None]

\* MinimalPackage with its defaults; paths is kept as the set of its elements
\* (the merge of _dedupe_global builds the list from a set).
EmptyPackage == [name |-> None, version |-> None, ecosystem |-> None, type |-> None,
                 vcs |-> None, repo_url |-> None, commit |-> None, scope |-> None,
                 direct |-> None, paths |-> {}]

\* scope: str(groups[0]) of a non-empty list, else str(category) when the key is there
ScopeOf(entry) ==
    IF entry.groups # None /\ Val(entry.groups) # <<>>
      THEN Some(Val(entry.groups)[1])
      ELSE entry.category

\* direct: a string is compared, lowercased, with "true"; what is no bool is dropped
DirectOf(entry) ==
    IF entry.direct = None THEN None
    ELSE LET d == Val(entry.direct)
         IN  CASE d.kind = "str" -> Some(Lower(d.s) = << "t", "r", "u", "e" >>)
               [] d.kind = "bool" -> Some(d.b)
               [] OTHER -> None

\* source.get("type") lowercased, "" when there is no source table
SrcTypeOf(entry) ==
    IF entry.source = None \/ Val(entry.source).type = None THEN <<>>
    ELSE Lower(Val(Val(entry.source).type))

S_git == << "g", "i", "t" >>
S_vcs == << "v", "c", "s" >>

\* An iteration that looks at the path marker before the version-control origin.
ExtractEntryLocalFirst(entry, path) ==
    LET scope == ScopeOf(entry)
        direct == DirectOf(entry)
        src == IF entry.source = None THEN EmptySource ELSE Val(entry.source)
    IN  IF TruthyQ(entry.name) /\ TruthyS(entry.version)
          THEN << [EmptyPackage EXCEPT !.name = Some(pep503_normalize(Val(entry.name))),
                                       !.version = entry.version,
                                       !.ecosystem = Some("PyPI"),
                                       !.scope = scope, !.direct = direct,
                                       !.paths = {path}] >>
        ELSE IF TruthyS(entry.path)
          THEN << [EmptyPackage EXCEPT !.type = Some("local"), !.scope = scope,
                                       !.direct = direct, !.paths = {path}] >>
        ELSE IF SrcTypeOf(entry) \in {S_git, S_vcs} \/ TruthyS(entry.vcs)
          THEN << [EmptyPackage EXCEPT
                      !.type = Some("vcs"), !.vcs = Some("git"),
                      !.repo_url = OrS(OrS(OrS(src.url, src.repository), src.repo),
                                       entry.url),
                      !.commit = OrS(OrS(OrS(src.resolved_reference, src.commit), src.rev),
                                     entry.commit),
                      !.scope = scope, !.direct = direct, !.paths = {path}] >>
        ELSE <<>>

\* One iteration of the loop over data["package"]: the packages it appends.
ExtractEntry(entry, path) ==
    LET scope == ScopeOf(entry)
        direct == DirectOf(entry)
        src == IF entry.source = None THEN EmptySource ELSE Val(entry.source)
    IN  IF TruthyQ(entry.name) /\ TruthyS(entry.version)
          THEN << [EmptyPackage EXCEPT !.name = Some(pep503_normalize(Val(entry.name))),
                                       !.version = entry.version,
                                       !.ecosystem = Some("PyPI"),
                                       !.scope = scope, !.direct = direct,
                                       !.paths = {path}] >>
        ELSE IF SrcTypeOf(entry) \in {S_git, S_vcs} \/ TruthyS(entry.vcs)
          THEN << [EmptyPackage EXCEPT
                      !.type = Some("vcs"), !.vcs = Some("git"),
                      !.repo_url = OrS(OrS(OrS(src.url, src.repository), src.repo),
                                       entry.url),
                      !.commit = OrS(OrS(OrS(src.resolved_reference, src.commit), src.rev),
                                     entry.commit),
                      !.scope = scope, !.direct = direct, !.paths = {path}] >>
        ELSE IF TruthyS(entry.path)
          THEN << [EmptyPackage EXCEPT !.type = Some("local"), !.scope = scope,
                                       !.direct = direct, !.paths = {path}] >>
        ELSE <<>>

RECURSIVE ExtractEntries(_, _)
ExtractEntries(entries, path) ==
    IF entries = <<>> THEN <<>>
    ELSE ExtractEntry(Head(entries), path) \o ExtractEntries(Tail(entries), path)

\* The regex fallback: one Released package per (name, version) pair matched.
RECURSIVE ExtractPairs(_, _)
ExtractPairs(pairs, path) ==
    IF pairs = <<>> THEN <<>>
    ELSE << [EmptyPackage EXCEPT !.name = Some(pep503_normalize(Head(pairs).name)),
                                 !.version = Some(Head(pairs).version),
                                 !.ecosystem = Some("PyPI"),
                                 !.paths = {path}] >>
         \o ExtractPairs(Tail(pairs), path)

\* A lockfile text is given by what the two strategies see in it: whether
\* try_load_toml yields a dict (toml), the value of data.get("package") when
\* it is a list (None when the key is missing or holds something else), and
\* the (name, version) pairs the regex finds in the raw text.
\* A parser that never takes the structured strategy.
StructuredNever(text) == FALSE

Structured(text) == text.toml /\ text.package # None

_extract_packages_from_uv_lock(text, path) ==
    IF Structured(text) THEN ExtractEntries(Val(text.package), path)
    ELSE ExtractPairs(text.pairs, path)

\* The identity key of _dedupe_global: the tag and the three fields of the
\* code's tuple, the strings first and the (character sequence) name last.
StrOr(o) == IF o = None THEN "" ELSE Val(o)
SeqOr(o) == IF o = None THEN <<>> ELSE Val(o)

\* A key that leaves the version out.
DedupeKeyWithoutVersion(p) ==
    IF p.type = Some("vcs") \/ (TruthyS(p.repo_url) /\ TruthyS(p.commit))
      THEN << "vcs", StrOr(p.vcs), StrOr(p.repo_url), StrOr(p.commit), <<>> >>
    ELSE IF TruthyQ(p.name) /\ TruthyS(p.version)
      THEN << "released", "", StrOr(p.ecosystem), "", SeqOr(p.name) >>
    ELSE << "other", StrOr(p.type), "", "", SeqOr(p.name) >>

DedupeKey(p) ==
    IF p.type = Some("vcs") \/ (TruthyS(p.repo_url) /\ TruthyS(p.commit))
      THEN << "vcs", StrOr(p.vcs), StrOr(p.repo_url), StrOr(p.commit), <<>> >>
    ELSE IF TruthyQ(p.name) /\ TruthyS(p.version)
      THEN << "released", StrOr(p.version), StrOr(p.ecosystem), "", SeqOr(p.name) >>
    ELSE << "other", StrOr(p.type), StrOr(p.version), "", SeqOr(p.name) >>

\* A merge in which the incoming scope and directness win.
MergeIntoLastWins(existing, p) ==
    [existing EXCEPT
        !.paths = existing.paths \cup p.paths,
        !.scope = IF p.scope # None THEN p.scope ELSE @,
        !.direct = IF p.direct # None THEN p.direct ELSE @]

\* The merge of an incoming record into the record already seen under its key.
MergeInto(existing, p) ==
    [existing EXCEPT
        !.paths = existing.paths \cup p.paths,
        !.scope = IF existing.scope = None /\ p.scope # None THEN p.scope ELSE @,
        !.direct = IF existing.direct = None /\ p.direct # None THEN p.direct ELSE @]

\* seen, as the list of its values in insertion order.
RECURSIVE DedupeAcc(_, _)
DedupeAcc(acc, packages) ==
    IF packages = <<>> THEN acc
    ELSE LET p == Head(packages)
             hit == { k \in DOMAIN acc : DedupeKey(acc[k]) = DedupeKey(p) }
         IN  IF hit # {}
               THEN DedupeAcc([k \in DOMAIN acc |->
                                  IF k \in hit THEN MergeInto(acc[k], p) ELSE acc[k]],
                              Tail(packages))
               ELSE DedupeAcc(Append(acc, p), Tail(packages))

\* A deduplicator that loses the record seen first.
DedupeLosesFirst(packages) ==
    LET all == DedupeAcc(<<>>, packages)
    IN  IF all = <<>> THEN <<>> ELSE Tail(all)

\* A deduplicator that lists the record found last first.
DedupeNewestFirst(packages) ==
    LET all == DedupeAcc(<<>>, packages)
    IN  [k \in 1..Len(all) |-> all[Len(all) + 1 - k]]

_dedupe_global(packages) == DedupeAcc(<<>>, packages)

\* The list passed to _dedupe_global as the call leaves it.  seen[key] = p
\* stores the record of the list itself, and the merge assigns to
\* existing.paths, existing.scope and existing.direct: the first record of
\* every key is the merged record afterwards, the others are as they were.
LeftBehind(packages) ==
    LET out == DedupeAcc(<<>>, packages)
        First(k) == \A j \in 1..(k - 1) : DedupeKey(packages[j]) # DedupeKey(packages[k])
    IN  [k \in DOMAIN packages |->
            IF First(k)
              THEN out[CHOOSE n \in DOMAIN out : DedupeKey(out[n]) = DedupeKey(packages[k])]
              ELSE packages[k]]

\* =========================================================================
\*  The repository provider (GitHub trees and contents), as the reader sees it
\* =========================================================================

T0 == << "T", "0" >>
T1 == << "T", "1" >>
T2 == << "T", "2" >>
TreeIds == {T0, T1, T2}

\* The trees of the scanned repository.  The directories a and b/x have the
\* same content, hence the same tree identifier.
RepoTree(sha) ==
    CASE sha = T0 -> << [type |-> "blob", path |-> S_readme, sha |-> << "R" >>],
                        [type |-> "tree", path |-> << "a" >>, sha |-> T1],
                        [type |-> "tree", path |-> << "b" >>, sha |-> T2],
                        [type |-> "blob", path |-> S_uv_lock, sha |-> << "L", "0" >>] >>
      [] sha = T1 -> << [type |-> "blob", path |-> S_uv_lock, sha |-> << "L", "1" >>] >>
      [] OTHER    -> << [type |-> "tree", path |-> << "x" >>, sha |-> T1] >>

\* A request for /git/trees/<node>: a tree identifier, or a ref naming the root.
TreeOf(node) == IF node \in DOMAIN trees THEN trees[node] ELSE trees[T0]

\* The listing of /git/trees/<ref>?recursive=1: every entry with its full path.
RECURSIVE RecEntries(_, _)
RecEntries(entries, prefix) ==
    IF entries = <<>> THEN <<>>
    ELSE LET e == Head(entries)
             full == [e EXCEPT !.path = prefix \o e.path]
         IN  << full >>
             \o (IF e.type = "tree"
                   THEN RecEntries(RepoTree(e.sha), full.path \o S_slash)
                   ELSE <<>>)
             \o RecEntries(Tail(entries), prefix)

RecursiveListing == RecEntries(RepoTree(T0), <<>>)

\* The lockfile texts of the repository, by blob identifier.
FlaskDev == [EmptyEntry EXCEPT !.name = Some(<< "F", "l", "a", "s", "k" >>),
                               !.version = Some("2.3.0"),
                               !.groups = Some(<< "dev" >>)]
FlaskPlain == [EmptyEntry EXCEPT !.name = Some(<< "f", "l", "a", "s", "k" >>),
                                 !.version = Some("2.3.0")]
LocalLib == [EmptyEntry EXCEPT !.path = Some("../lib")]

BlobText(sha) ==
    IF sha = << "L", "1" >>
      THEN [toml |-> TRUE, package |-> Some(<< FlaskDev >>), pairs |-> <<>>]
      ELSE [toml |-> TRUE, package |-> Some(<< FlaskPlain, LocalLib >>), pairs |-> <<>>]

\* The blob at a path of the repository, if any.
BlobAt(path) ==
    LET hits == { k \in DOMAIN RecursiveListing :
                    RecursiveListing[k].type = "blob" /\ RecursiveListing[k].path = path }
    IN  IF hits = {} THEN None ELSE Some(RecursiveListing[CHOOSE k \in hits : TRUE].sha)

\* =========================================================================
\*  Lockfile discovery: GitHubUvLockReaderURLMinimal
\* =========================================================================

Url(scheme, netloc, path) == [scheme |-> scheme, netloc |-> netloc, path |-> path]

P_octo == S_slash \o S_octo
P_octo_app == P_octo \o S_slash \o S_app

Locators == {
    Url(S_https, S_github_com, P_octo_app),
    Url(S_https, S_github_com, P_octo_app \o S_dot_git \o S_slash \o S_tree \o S_slash \o S_dev),
    Url(S_https, S_github_com, P_octo),
    Url(S_https, S_github_com, <<>>),
    Url(S_https, S_gitlab_com, P_octo_app),
    Url(S_https, S_evil_host, P_octo_app),
    Url(S_ftp, S_github_com, P_octo_app) }

\* UvLockReaderInput._must_be_github: TRUE when the value is accepted.
_must_be_github(url) ==
    ~ (~ StartsWith(url.scheme, S_http) \/ ~ Contains(url.netloc, S_github_com))

\* parts of _parse_repo_url: the non-empty segments of the path
PathParts(url) == SelectSeq(Split(url.path, "/"), LAMBDA seg : seg # <<>>)

\* _parse_repo_url past its length check: (owner, repo, ref)
_parse_repo_url(url) ==
    LET parts == PathParts(url)
    IN  [owner |-> parts[1],
         repo |-> RemoveSuffix(parts[2], S_dot_git),
         ref |-> IF Len(parts) >= 4 /\ parts[3] = S_tree /\ parts[4] # <<>>
                   THEN parts[4] ELSE S_HEAD]

\* The uv.lock blobs of a tree listing, in listing order, with the path each
\* entry carries.
RECURSIVE LockPaths(_)
LockPaths(entries) ==
    IF entries = <<>> THEN <<>>
    ELSE (IF Head(entries).type = "blob" /\ EndsWith(Head(entries).path, S_uv_lock)
            THEN << Head(entries).path >> ELSE <<>>)
         \o LockPaths(Tail(entries))

\* The child trees of a tree listing, in listing order.
RECURSIVE ChildTrees(_)
ChildTrees(entries) ==
    IF entries = <<>> THEN <<>>
    ELSE (IF Head(entries).type = "tree" /\ Head(entries).sha # <<>>
            THEN << Head(entries).sha >> ELSE <<>>)
         \o ChildTrees(Tail(entries))

\* What the answers of the provider can be.
GetOutcomes == {"200", "404", "500", "transport"}

\* The three places where a GET answer is judged: "ok" goes on with the body,
\* "skip" is a continue, the others raise.
\* a 404 taken for an answer with a body
TreeDispositionIgnores404(o) ==
    CASE o = "200" -> "ok" [] o = "404" -> "ok" [] OTHER -> "http"
TreeDisposition(o) ==
    CASE o = "200" -> "ok" [] o = "404" -> "not-found" [] OTHER -> "http"

SubtreeDisposition(o) ==
    CASE o = "200" -> "ok" [] o = "404" -> "skip" [] OTHER -> "http"

ContentDisposition(o) ==
    CASE o = "200" -> "ok" [] o = "404" -> "skip" [] OTHER -> "http"

\* if truncated and not paths
\* the test without  and not paths
NeedsFallbackAnyTruncated(trunc, found) == trunc
NeedsFallback(trunc, found) == trunc /\ found = <<>>

\* if node in seen
\* the traversal without its visited set
AlreadySeenNever(node, visited) == FALSE
AlreadySeen(node, visited) == node \in visited

NoTree == [truncated |-> FALSE, tree |-> <<>>, sha |-> <<>>]

ReaderInit ==
    /\ repo_url \in Locators
    /\ rpc = "input"
    /\ error = "none"
    /\ owner = <<>> /\ repo = <<>> /\ ref = <<>>
    /\ t_json = NoTree
    /\ truncated = FALSE
    /\ paths = <<>>
    /\ queue = <<>>
    /\ seen = {}
    /\ trees = [t \in TreeIds |-> RepoTree(t)]
    /\ pidx = 1
    /\ files_scanned = <<>>
    /\ all_packages = <<>>
    /\ result = None
    /\ requests = <<>>
    /\ lock_texts = <<>>
    /\ pkgs = <<>>
    /\ strategy = "none"
    /\ passed_in = <<>>
    \* the lookup is not running
    /\ purls = <<>> /\ max_batch_size = 0 /\ max_retries = 0 /\ lpc = "off"
    /\ i = 0 /\ batch = <<>> /\ attempt = 0 /\ fb_errors = <<>>
    /\ fb_rate_limited = FALSE
    /\ ret = [items |-> <<>>, rate_limited |-> FALSE, errors |-> <<>>]
    /\ results = <<>> /\ rate_limited_seen = FALSE /\ all_errors = <<>>
    /\ posts = <<>> /\ batches = <<>>
    /\ context = <<>> /\ input_packages = <<>>
    /\ auth_email = None /\ auth_token = None
    /\ headers = NoHeaders /\ returned = <<>>
    /\ retry_backoff_seconds = DefaultBackoff /\ sleeps = <<>>
    \* the session manager is not in use
    /\ _session = None /\ _streams = None /\ _tools = None
    /\ contexts = <<>> /\ sessions = <<>> /\ task = <<>> /\ calls = 0

\* Construction of UvLockReaderInput: the field validator.
Validate ==
    /\ rpc = "input"
    /\ IF _must_be_github(repo_url)
         THEN rpc' = "parse" /\ error' = error
         ELSE rpc' = "rejected" /\ error' = "validation"
    /\ UNCHANGED << trees, repo_url, owner, repo, ref, t_json, truncated, paths, queue,
                    seen, pidx, files_scanned, all_packages, result, requests >>
    /\ UNCHANGED lookupVars
    /\ UNCHANGED sessionVars
    /\ UNCHANGED parserVars

\* _run, first line: _parse_repo_url raises ToolError on fewer than two parts.
ParseRepoUrl ==
    /\ rpc = "parse"
    /\ IF Len(PathParts(repo_url)) < 2
         THEN /\ rpc' = "raised" /\ error' = "parse"
              /\ UNCHANGED << owner, repo, ref >>
         ELSE /\ owner' = _parse_repo_url(repo_url).owner
              /\ repo' = _parse_repo_url(repo_url).repo
              /\ ref' = _parse_repo_url(repo_url).ref
              /\ rpc' = "tree" /\ error' = error
    /\ UNCHANGED << trees, repo_url, t_json, truncated, paths, queue, seen, pidx,
                    files_scanned, all_packages, result, requests >>
    /\ UNCHANGED lookupVars
    /\ UNCHANGED sessionVars
    /\ UNCHANGED parserVars

\* 1) the recursive tree request and what _run does with its answer, up to the
\* seeding of the fallback queue.  A truncated listing is a prefix of the full one.
TreeResponse(o, body) ==
    /\ rpc = "tree"
    /\ requests' = Append(requests, [kind |-> "tree", owner |-> owner, repo |-> repo,
                                     target |-> ref, ref |-> None, outcome |-> o])
    /\ IF TreeDisposition(o) = "ok"
         THEN /\ t_json' = body
              /\ truncated' = body.truncated
              /\ paths' = LockPaths(body.tree)
              /\ IF NeedsFallback(truncated', paths')
                   THEN /\ queue' = << IF body.sha # <<>> THEN body.sha ELSE ref >>
                        /\ rpc' = "fallback"
                   ELSE /\ queue' = queue
                        /\ rpc' = "contents"
              /\ error' = error
         ELSE /\ rpc' = "raised"
              /\ error' = TreeDisposition(o)
              /\ UNCHANGED << t_json, truncated, paths, queue >>
    /\ UNCHANGED << trees, repo_url, owner, repo, ref, seen, pidx, files_scanned,
                    all_packages, result >>
    /\ UNCHANGED lookupVars
    /\ UNCHANGED sessionVars
    /\ UNCHANGED parserVars

TreeBodies(o) ==
    IF o = "200"
      THEN { b \in [truncated : BOOLEAN,
                    tree : { SubSeq(RecursiveListing, 1, k) : k \in 0..Len(RecursiveListing) },
                    sha : {T0, <<>>}] :
               b.truncated \/ b.tree = RecursiveListing }
      ELSE { NoTree }

TreeFetch == \E o \in GetOutcomes : \E body \in TreeBodies(o) : TreeResponse(o, body)

\* 1b) an iteration of  while queue  whose node was visited before
FallbackSkip ==
    /\ rpc = "fallback"
    /\ queue # <<>>
    /\ AlreadySeen(queue[Len(queue)], seen)
    /\ queue' = SubSeq(queue, 1, Len(queue) - 1)
    /\ UNCHANGED << trees, repo_url, rpc, error, owner, repo, ref, t_json, truncated, paths,
                    seen, pidx, files_scanned, all_packages, result, requests >>
    /\ UNCHANGED lookupVars
    /\ UNCHANGED sessionVars
    /\ UNCHANGED parserVars

\* 1b) an iteration of  while queue  that requests the node's tree
SubtreeResponse(o) ==
    LET node == queue[Len(queue)]
        rest == SubSeq(queue, 1, Len(queue) - 1)
        tree == TreeOf(node)
    IN  /\ rpc = "fallback"
        /\ queue # <<>>
        /\ ~ AlreadySeen(node, seen)
        /\ seen' = seen \cup {node}
        /\ requests' = Append(requests, [kind |-> "subtree", owner |-> owner,
                                         repo |-> repo, target |-> node, ref |-> None,
                                         outcome |-> o])
        /\ CASE SubtreeDisposition(o) = "ok" ->
                  /\ queue' = rest \o ChildTrees(tree)
                  /\ paths' = paths \o LockPaths(tree)
                  /\ UNCHANGED << rpc, error >>
             [] SubtreeDisposition(o) = "skip" ->
                  /\ queue' = rest
                  /\ UNCHANGED << paths, rpc, error >>
             [] OTHER ->
                  /\ rpc' = "raised"
                  /\ error' = "http"
                  /\ queue' = rest
                  /\ UNCHANGED paths
        /\ UNCHANGED << trees, repo_url, owner, repo, ref, t_json, truncated, pidx,
                        files_scanned, all_packages, result >>
        /\ UNCHANGED lookupVars
        /\ UNCHANGED sessionVars
        /\ UNCHANGED parserVars

SubtreeFetch == \E o \in GetOutcomes : SubtreeResponse(o)

\* 1b) the queue is empty: on to the lockfiles
FallbackEnd ==
    /\ rpc = "fallback"
    /\ queue = <<>>
    /\ rpc' = "contents"
    /\ UNCHANGED << trees, repo_url, error, owner, repo, ref, t_json, truncated, paths, queue,
                    seen, pidx, files_scanned, all_packages, result, requests >>
    /\ UNCHANGED lookupVars
    /\ UNCHANGED sessionVars
    /\ UNCHANGED parserVars

\* What a contents request can be answered: the text of the blob at the path
\* (base64), a body that is empty or not base64, or a failure.
ContentOutcomes(p) ==
    {"404", "500", "transport"}
    \cup (IF BlobAt(p) # None THEN {"200", "200-not-base64"} ELSE {})

\* 2) one iteration of  for p in paths
ContentResponse(o) ==
    LET p == paths[pidx]
        status == IF o = "200-not-base64" THEN "200" ELSE o
        parsed == _extract_packages_from_uv_lock(BlobText(Val(BlobAt(p))), p)
    IN  /\ rpc = "contents"
        /\ pidx <= Len(paths)
        /\ o \in ContentOutcomes(p)
        /\ requests' = Append(requests, [kind |-> "contents", owner |-> owner,
                                         repo |-> repo, target |-> p,
                                         ref |-> IF ref # <<>> /\ ref # S_HEAD
                                                   THEN Some(ref) ELSE None,
                                         outcome |-> o])
        /\ CASE ContentDisposition(status) = "http" ->
                  /\ rpc' = "raised"
                  /\ error' = "http"
                  /\ UNCHANGED << pidx, files_scanned, all_packages >>
             [] ContentDisposition(status) = "ok" /\ o = "200" /\ parsed # <<>> ->
                  /\ files_scanned' = Append(files_scanned, p)
                  /\ all_packages' = all_packages \o parsed
                  /\ pidx' = pidx + 1
                  /\ UNCHANGED << rpc, error >>
             [] OTHER ->
                  /\ pidx' = pidx + 1
                  /\ UNCHANGED << rpc, error, files_scanned, all_packages >>
        /\ UNCHANGED << trees, repo_url, owner, repo, ref, t_json, truncated, paths, queue,
                        seen, result >>
        /\ UNCHANGED lookupVars
        /\ UNCHANGED sessionVars
        /\ UNCHANGED parserVars

ContentFetch == \E o \in {"200", "200-not-base64", "404", "500", "transport"} :
                    ContentResponse(o)

\* 3) dedup, stats and the returned MinimalResult
Complete ==
    /\ rpc = "contents"
    /\ pidx > Len(paths)
    /\ LET deduped == _dedupe_global(all_packages)
           local == { k \in DOMAIN deduped :
                        /\ deduped[k].type = Some("local")
                        /\ ~ (TruthyQ(deduped[k].name) /\ TruthyS(deduped[k].version)) }
       IN  result' = Some([repo |-> owner \o S_slash \o repo,
                           ref |-> ref,
                           files_scanned |-> files_scanned,
                           packages |-> deduped,
                           stats |-> [unique_pkgs |-> Len(deduped),
                                      skipped_local |-> Cardinality(local),
                                      truncated |-> truncated]])
    /\ passed_in' = LeftBehind(all_packages)
    /\ rpc' = "done"
    /\ UNCHANGED << trees, repo_url, error, owner, repo, ref, t_json, truncated, paths, queue,
                    seen, pidx, files_scanned, all_packages, requests >>
    /\ UNCHANGED lookupVars
    /\ UNCHANGED sessionVars
    /\ UNCHANGED << lock_texts, pkgs, strategy >>

ReaderNext ==
    \/ Validate \/ ParseRepoUrl \/ TreeFetch \/ FallbackSkip \/ SubtreeFetch
    \/ FallbackEnd \/ ContentFetch \/ Complete

\* =========================================================================
\*  The scan from the lockfile texts on: parsing, deduplication, statistics
\* =========================================================================

\* The entries in all of a scan's lockfiles together.
MaxEntries == 3
\* The length of the package names enumerated.
MaxNameLen == 3

NameAlphabet == {"A", "a", "b", "-", "_", ".", " "}

S_Foo_Bar == << "F", "o", "o", "_", "B", "a", "r" >>
S_foo_dot_bar == << "f", "o", "o", ".", "b", "a", "r" >>
S_FOO_BAR == << "F", "O", "O", "-", "B", "A", "R" >>
S_foo_bar == << "f", "o", "o", "-", "b", "a", "r" >>

\* The values of a "name" key: every short string over the alphabet and the
\* three spellings of one project name.
ShortNames(k) == [1..k -> NameAlphabet]
Spellings == {S_Foo_Bar, S_foo_dot_bar, S_FOO_BAR}
Names == UNION { ShortNames(k) : k \in 0..MaxNameLen } \cup Spellings

NamedEntry(n) == [EmptyEntry EXCEPT !.name = Some(n), !.version = Some("1.0")]

\* The values of a "direct" key: booleans, strings, and a value of another type.
S_true == << "t", "r", "u", "e" >>
S_false == << "f", "a", "l", "s", "e" >>
S_True == << "T", "r", "u", "e" >>
S_yes == << "y", "e", "s" >>

Bool(b) == [kind |-> "bool", b |-> b, s |-> <<>>]
Str(s) == [kind |-> "str", b |-> FALSE, s |-> s]
IntValue == [kind |-> "int", b |-> FALSE, s |-> <<>>]

DirectValues ==
    {None, Some(Bool(TRUE)), Some(Bool(FALSE)), Some(Str(S_true)), Some(Str(S_false)),
     Some(Str(S_True)), Some(Str(S_yes)), Some(IntValue)}

\* The values of a "source" table.
Registry == [EmptySource EXCEPT !.type = Some(<< "r", "e", "g", "i", "s", "t", "r", "y" >>),
                                !.url = Some("https://pypi.org/simple")]
GitPinnedSource == [EmptySource EXCEPT !.type = Some(S_git),
                                       !.url = Some("https://github.com/octo/lib"),
                                       !.resolved_reference = Some("c0ffee")]
GitBareSource == [EmptySource EXCEPT !.type = Some(<< "G", "I", "T" >>)]
VcsRepoSource == [EmptySource EXCEPT !.type = Some(S_vcs),
                                     !.repository = Some("https://github.com/octo/lib"),
                                     !.rev = Some("c0ffee")]

SourceValues ==
    {None, Some(Registry), Some(GitPinnedSource), Some(GitBareSource), Some(VcsRepoSource)}

\* groups and category together
ScopeValues ==
    { [groups |-> None, category |-> None],
      [groups |-> Some(<< "dev" >>), category |-> Some("main")],
      [groups |-> Some(<<>>), category |-> Some("main")],
      [groups |-> None, category |-> Some("main")] }

\* url and commit on the entry itself
EntryVcsValues ==
    { [url |-> None, commit |-> None],
      [url |-> Some("https://github.com/octo/tool"), commit |-> None],
      [url |-> Some("https://github.com/octo/tool"), commit |-> Some("beef01")] }

\* An entry by the keys the structured strategy reads.
NameValues == {None, Some(<<>>), Some(<< " " >>), Some(<< "A", "_", "b" >>)}
VersionValues == {None, Some(""), Some("1.0")}
PathValues == {None, Some(""), Some("../lib")}
VcsValues == {None, Some("git")}

GridEntry(n, v, s, g, d, p, c, u) ==
    [name |-> n, version |-> v, source |-> s, groups |-> g.groups,
     category |-> g.category, direct |-> d, path |-> p, vcs |-> c,
     url |-> u.url, commit |-> u.commit]

\* What the regex finds: the name and the version are runs of one character
\* or more, none of them a quote.
Pair(n) == [name |-> n, version |-> "1.0"]

Document(entries, pairs) == [toml |-> TRUE, package |-> Some(entries), pairs |-> pairs]

\* A text without a list under "package": one that is no TOML, or TOML with
\* other tables only (the empty text is one).
Unstructured(toml, pairs) == [toml |-> toml, package |-> None, pairs |-> pairs]

EmptyText == Unstructured(TRUE, <<>>)

\* The paths of the scan: the uv.lock blobs of the repository.
ScanPaths == LockPaths(RecursiveListing)

\* The texts of a scan whose first lockfile alone has anything in it.
Single(text) == [f \in DOMAIN ScanPaths |-> IF f = 1 THEN text ELSE EmptyText]

\* The entries of the scans with several entries: one project in three
\* spellings of its metadata and in another version, two local dependencies,
\* two git dependencies.
FlaskMain == [FlaskPlain EXCEPT !.category = Some("main"), !.direct = Some(Bool(FALSE))]
FlaskNext == [FlaskPlain EXCEPT !.version = Some("3.0.0")]
LocalApp == [EmptyEntry EXCEPT !.path = Some("../app"), !.groups = Some(<< "dev" >>)]
GitPinned == [EmptyEntry EXCEPT !.source = Some(GitPinnedSource)]
GitBare == [EmptyEntry EXCEPT !.source = Some(GitBareSource), !.direct = Some(Str(S_true))]

MergeEntries ==
    {FlaskPlain, FlaskDev, FlaskMain, FlaskNext, LocalLib, LocalApp, GitPinned, GitBare}

\* Entries with the lockfile each stands in, in file order.
InFileOrder(q) == \A j \in 1..(Len(q) - 1) : q[j][2] <= q[j + 1][2]

EntriesAt(q, f) ==
    LET here == SelectSeq(q, LAMBDA x : x[2] = f)
    IN  [j \in DOMAIN here |-> here[j][1]]

Placed(q) == [f \in DOMAIN ScanPaths |-> Document(EntriesAt(q, f), <<>>)]

\* The texts a scan is run on.
IsScanText(texts) ==
    \/ \E n \in NameValues, v \in VersionValues, s \in SourceValues, g \in ScopeValues,
          d \in DirectValues, p \in PathValues, c \in VcsValues, u \in EntryVcsValues :
            texts = Single(Document(<< GridEntry(n, v, s, g, d, p, c, u) >>, <<>>))
    \/ \E n \in Names, both \in BOOLEAN :
            texts = Single(Document(<< NamedEntry(n) >>,
                                    IF both /\ n # <<>> THEN << Pair(n) >> ELSE <<>>))
    \/ \E n \in Names \ {<<>>}, toml \in BOOLEAN :
            texts = Single(Unstructured(toml, << Pair(n) >>))
    \/ \E toml \in BOOLEAN, ps \in {<<>>, << Pair(S_Foo_Bar), Pair(S_FOO_BAR) >>} :
            texts = Single(Unstructured(toml, ps))
    \/ \E es \in {<<>>, << LocalLib >>, << GitPinned >>, << FlaskDev >>} :
            texts = Single(Document(es, << Pair(S_foo_dot_bar) >>))
    \/ \E k \in 1..MaxEntries : \E q \in [1..k -> MergeEntries \X DOMAIN ScanPaths] :
            InFileOrder(q) /\ texts = Placed(q)

\* _run at the loop over paths (line 319), the texts of the lockfiles given.
ParserInit ==
    /\ IsScanText(lock_texts)
    /\ pkgs = <<>>
    /\ strategy = "none"
    /\ passed_in = <<>>
    /\ repo_url = Url(S_https, S_github_com, P_octo_app)
    /\ rpc = "contents"
    /\ error = "none"
    /\ owner = S_octo /\ repo = S_app /\ ref = S_HEAD
    /\ t_json = [truncated |-> FALSE, tree |-> RecursiveListing, sha |-> T0]
    /\ truncated = FALSE
    /\ paths = ScanPaths
    /\ queue = <<>>
    /\ seen = {}
    /\ trees = [t \in TreeIds |-> RepoTree(t)]
    /\ pidx = 1
    /\ files_scanned = <<>>
    /\ all_packages = <<>>
    /\ result = None
    /\ requests = <<>>
    \* the lookup is not running
    /\ purls = <<>> /\ max_batch_size = 0 /\ max_retries = 0 /\ lpc = "off"
    /\ i = 0 /\ batch = <<>> /\ attempt = 0 /\ fb_errors = <<>>
    /\ fb_rate_limited = FALSE
    /\ ret = [items |-> <<>>, rate_limited |-> FALSE, errors |-> <<>>]
    /\ results = <<>> /\ rate_limited_seen = FALSE /\ all_errors = <<>>
    /\ posts = <<>> /\ batches = <<>>
    /\ context = <<>> /\ input_packages = <<>>
    /\ auth_email = None /\ auth_token = None
    /\ headers = NoHeaders /\ returned = <<>>
    /\ retry_backoff_seconds = DefaultBackoff /\ sleeps = <<>>
    \* the session manager is not in use
    /\ _session = None /\ _streams = None /\ _tools = None
    /\ contexts = <<>> /\ sessions = <<>> /\ task = <<>> /\ calls = 0

\* One iteration of  for p in paths  from the decoded text on (lines 333-342).
ExtractLockfile ==
    /\ rpc = "contents"
    /\ lock_texts # <<>>
    /\ pidx <= Len(paths)
    /\ pkgs' = _extract_packages_from_uv_lock(lock_texts[pidx], paths[pidx])
    /\ strategy' = IF Structured(lock_texts[pidx]) THEN "structured" ELSE "regex"
    /\ IF pkgs' # <<>>
         THEN /\ files_scanned' = Append(files_scanned, paths[pidx])
              /\ all_packages' = all_packages \o pkgs'
         ELSE UNCHANGED << files_scanned, all_packages >>
    /\ pidx' = pidx + 1
    /\ UNCHANGED << trees, lock_texts, passed_in, repo_url, rpc, error, owner, repo, ref,
                    t_json, truncated, paths, queue, seen, result, requests >>
    /\ UNCHANGED lookupVars
    /\ UNCHANGED sessionVars

ParserNext == ExtractLockfile \/ Complete

\* =========================================================================
\*  SessionManager (session_manager.py): the shared MCP session
\* =========================================================================

\* The tokens get_tools is called with, and the tasks that call the shared
\* instance (utils.py line 18, agent.py line 361).
Tokens == {"A", "B"}
Callers == {1, 2}
\* The calls made on the manager in one behaviour.
MaxCalls == 3

Operations == {"get_session", "get_tools", "close"}

\* a task that is not inside a call
Idle == [pc |-> "idle", op |-> "none", pat |-> "none", context |-> 0,
         session |-> None, target |-> 0, ret |-> None]

\* __init__ (lines 12-15)
SessionInit ==
    /\ _session = None /\ _streams = None /\ _tools = None
    /\ contexts = <<>> /\ sessions = <<>>
    /\ task = [c \in Callers |-> Idle]
    /\ calls = 0
    \* the lookup is not running
    /\ purls = <<>> /\ max_batch_size = 0 /\ max_retries = 0 /\ lpc = "off"
    /\ i = 0 /\ batch = <<>> /\ attempt = 0 /\ fb_errors = <<>>
    /\ fb_rate_limited = FALSE
    /\ ret = [items |-> <<>>, rate_limited |-> FALSE, errors |-> <<>>]
    /\ results = <<>> /\ rate_limited_seen = FALSE /\ all_errors = <<>>
    /\ posts = <<>> /\ batches = <<>>
    /\ context = <<>> /\ input_packages = <<>>
    /\ auth_email = None /\ auth_token = None
    /\ headers = NoHeaders /\ returned = <<>>
    /\ retry_backoff_seconds = DefaultBackoff /\ sleeps = <<>>
    \* the reader is not running
    /\ repo_url = [scheme |-> <<>>, netloc |-> <<>>, path |-> <<>>]
    /\ rpc = "off" /\ error = "none"
    /\ owner = <<>> /\ repo = <<>> /\ ref = <<>>
    /\ t_json = [truncated |-> FALSE, tree |-> <<>>, sha |-> <<>>]
    /\ truncated = FALSE /\ paths = <<>> /\ queue = <<>> /\ seen = {} /\ pidx = 1
    /\ trees = <<>>
    /\ files_scanned = <<>> /\ all_packages = <<>> /\ result = {}
    /\ requests = <<>>
    /\ lock_texts = <<>> /\ pkgs = <<>> /\ strategy = "none" /\ passed_in = <<>>

\* A call of get_session, get_tools or close, up to its first await that
\* can suspend, or to its return when it awaits nothing.
Call(c, op, pat) ==
    LET begun == [Idle EXCEPT !.op = op, !.pat = pat]
    IN  /\ task[c].pc \in {"idle", "returned", "raised"}
        /\ calls < MaxCalls
        /\ calls' = calls + 1
        /\ CASE op = "close" /\ _session # None ->
                  \* line 42: await self._session.__aexit__(...)
                  /\ task' = [task EXCEPT ![c] = [begun EXCEPT !.pc = "session_exit",
                                                               !.target = Val(_session)]]
                  /\ UNCHANGED << _session, _streams, _tools, contexts >>
             [] op = "close" /\ _session = None /\ _streams # None ->
                  \* line 45: await self._streams.__aexit__(...)
                  /\ task' = [task EXCEPT ![c] = [begun EXCEPT !.pc = "streams_exit",
                                                               !.target = Val(_streams)]]
                  /\ UNCHANGED << _session, _streams, _tools, contexts >>
             [] op = "close" /\ _session = None /\ _streams = None ->
                  \* line 47
                  /\ _tools' = None
                  /\ task' = [task EXCEPT ![c] = [begun EXCEPT !.pc = "returned"]]
                  /\ UNCHANGED << _session, _streams, contexts >>
             [] op = "get_tools" /\ _tools # None ->
                  \* lines 23, 26
                  /\ task' = [task EXCEPT ![c] = [begun EXCEPT !.pc = "returned",
                                                               !.ret = _tools]]
                  /\ UNCHANGED << _session, _streams, _tools, contexts >>
             [] op = "get_session" /\ _session # None ->
                  \* lines 18, 20
                  /\ task' = [task EXCEPT ![c] = [begun EXCEPT !.pc = "returned",
                                                               !.ret = _session]]
                  /\ UNCHANGED << _session, _streams, _tools, contexts >>
             [] op = "get_tools" /\ _tools = None /\ _session # None ->
                  \* lines 23-25: await MCPTool.from_client(session)
                  /\ task' = [task EXCEPT ![c] = [begun EXCEPT !.pc = "from_client",
                                                               !.session = _session]]
                  /\ UNCHANGED << _session, _streams, _tools, contexts >>
             [] OTHER ->
                  \* connect, lines 29-35: await self._streams.__aenter__()
                  /\ contexts' = Append(contexts, [pat |-> pat, state |-> "created"])
                  /\ _streams' = Some(Len(contexts) + 1)
                  /\ task' = [task EXCEPT ![c] = [begun EXCEPT !.pc = "stream_enter",
                                                               !.context = Len(contexts) + 1]]
                  /\ UNCHANGED << _session, _tools >>
        /\ UNCHANGED sessions
        /\ UNCHANGED lookupVars
        /\ UNCHANGED readerVars
        /\ UNCHANGED parserVars

\* connect, lines 35-37: the stream context is entered, or entering it raises.
StreamEntered(c, ok) ==
    /\ task[c].pc = "stream_enter"
    /\ ok => contexts[task[c].context].state = "created"
    /\ IF ok
         THEN /\ contexts' = [contexts EXCEPT ![task[c].context].state = "open"]
              /\ sessions' = Append(sessions, [context |-> task[c].context,
                                               state |-> "created",
                                               initialized |-> FALSE])
              /\ _session' = Some(Len(sessions) + 1)
              /\ task' = [task EXCEPT ![c].pc = "session_enter",
                                      ![c].target = Len(sessions) + 1]
         ELSE /\ contexts' = [contexts EXCEPT ![task[c].context].state = "failed"]
              /\ task' = [task EXCEPT ![c].pc = "raised"]
              /\ UNCHANGED << sessions, _session >>
    /\ UNCHANGED << _streams, _tools, calls >>
    /\ UNCHANGED lookupVars
    /\ UNCHANGED readerVars
    /\ UNCHANGED parserVars

\* connect, lines 37-38: the session is entered, or entering it raises; then
\* self._session is read again for initialize().
SessionEntered(c, ok) ==
    /\ task[c].pc = "session_enter"
    /\ ok => sessions[task[c].target].state = "created"
    /\ IF ok
         THEN /\ sessions' = [sessions EXCEPT ![task[c].target].state = "entered"]
              /\ IF _session # None
                   THEN task' = [task EXCEPT ![c].pc = "initialize",
                                             ![c].target = Val(_session)]
                   ELSE task' = [task EXCEPT ![c].pc = "raised"]
         ELSE /\ sessions' = [sessions EXCEPT ![task[c].target].state = "failed"]
              /\ task' = [task EXCEPT ![c].pc = "raised"]
    /\ UNCHANGED << _session, _streams, _tools, contexts, calls >>
    /\ UNCHANGED lookupVars
    /\ UNCHANGED readerVars
    /\ UNCHANGED parserVars

\* connect, line 38, and the return of get_session (line 20); for get_tools
\* the await of line 25 follows.
Initialized(c, ok) ==
    /\ task[c].pc = "initialize"
    /\ ok => sessions[task[c].target].state = "entered"
    /\ IF ok
         THEN /\ sessions' = [sessions EXCEPT ![task[c].target].initialized = TRUE]
              /\ IF task[c].op = "get_session"
                   THEN task' = [task EXCEPT ![c].pc = "returned", ![c].ret = _session]
                   ELSE task' = [task EXCEPT ![c].pc = "from_client",
                                             ![c].session = _session]
         ELSE /\ task' = [task EXCEPT ![c].pc = "raised"]
              /\ UNCHANGED sessions
    /\ UNCHANGED << _session, _streams, _tools, contexts, calls >>
    /\ UNCHANGED lookupVars
    /\ UNCHANGED readerVars
    /\ UNCHANGED parserVars

\* get_tools, lines 25-26: the tools of the session are listed and cached.
FromClient(c, ok) ==
    /\ task[c].pc = "from_client"
    /\ ok => /\ task[c].session # None
             /\ sessions[Val(task[c].session)].state = "entered"
    /\ IF ok
         THEN /\ _tools' = task[c].session
              /\ task' = [task EXCEPT ![c].pc = "returned", ![c].ret = _tools']
         ELSE /\ task' = [task EXCEPT ![c].pc = "raised"]
              /\ UNCHANGED _tools
    /\ UNCHANGED << _session, _streams, contexts, sessions, calls >>
    /\ UNCHANGED lookupVars
    /\ UNCHANGED readerVars
    /\ UNCHANGED parserVars

\* close, lines 42-47: the session has been left; on to the streams.
SessionExit(c) ==
    /\ task[c].pc = "session_exit"
    /\ sessions' = [sessions EXCEPT ![task[c].target].state = "closed"]
    /\ _session' = None
    /\ IF _streams # None
         THEN /\ task' = [task EXCEPT ![c].pc = "streams_exit",
                                      ![c].target = Val(_streams)]
              /\ UNCHANGED _tools
         ELSE /\ _tools' = None
              /\ task' = [task EXCEPT ![c].pc = "returned"]
    /\ UNCHANGED << _streams, contexts, calls >>
    /\ UNCHANGED lookupVars
    /\ UNCHANGED readerVars
    /\ UNCHANGED parserVars

\* close, lines 45-47: the stream context has been left.
StreamsExit(c) ==
    /\ task[c].pc = "streams_exit"
    /\ contexts' = [contexts EXCEPT ![task[c].target].state = "closed"]
    /\ _streams' = None
    /\ _tools' = None
    /\ task' = [task EXCEPT ![c].pc = "returned"]
    /\ UNCHANGED << _session, sessions, calls >>
    /\ UNCHANGED lookupVars
    /\ UNCHANGED readerVars
    /\ UNCHANGED parserVars

SessionNext ==
    \E c \in Callers :
        \/ \E op \in Operations : \E pat \in Tokens : Call(c, op, pat)
        \/ \E ok \in BOOLEAN : StreamEntered(c, ok)
        \/ \E ok \in BOOLEAN : SessionEntered(c, ok)
        \/ \E ok \in BOOLEAN : Initialized(c, ok)
        \/ \E ok \in BOOLEAN : FromClient(c, ok)
        \/ SessionExit(c)
        \/ StreamsExit(c)

\* ------------------------------------------------------------ specifications

vars == << lookupVars, readerVars, parserVars, sessionVars >>

LookupSpec == LookupInit /\ [][LookupNext]_vars

ReaderSpec == ReaderInit /\ [][ReaderNext]_vars

SessionSpec == SessionInit /\ [][SessionNext]_vars

\* =========================================================================
\*  The fallback traversal over any provider graph
\* =========================================================================

\* A tree listing with a subtree entry for each tree of kids and, when lock
\* holds, a lockfile blob.  One identifier can be listed by several parents;
\* a listing that names one of its own ancestors is what a provider serving
\* inconsistent data returns.
Listing(kids, lock) ==
    [k \in 1..Len(SelectSeq(<< T0, T1, T2 >>, LAMBDA t : t \in kids)) |->
        [type |-> "tree",
         path |-> << "d" >> \o SelectSeq(<< T0, T1, T2 >>, LAMBDA t : t \in kids)[k],
         sha |-> SelectSeq(<< T0, T1, T2 >>, LAMBDA t : t \in kids)[k]]]
    \o (IF lock THEN << [type |-> "blob", path |-> S_uv_lock, sha |-> << "L" >>] >>
                ELSE <<>>)

Graphs == { [t \in TreeIds |-> Listing(g[t][1], g[t][2])] :
              g \in [TreeIds -> (SUBSET TreeIds) \X BOOLEAN] }

\* _run at line 292, after a truncated recursive listing without lockfiles:
\* the queue holds the root tree.
WalkInit ==
    /\ trees \in Graphs
    /\ repo_url = Url(S_https, S_github_com, P_octo_app)
    /\ rpc = "fallback"
    /\ error = "none"
    /\ owner = S_octo /\ repo = S_app /\ ref = S_HEAD
    /\ t_json = [truncated |-> TRUE, tree |-> <<>>, sha |-> T0]
    /\ truncated = TRUE
    /\ paths = <<>>
    /\ queue = << T0 >>
    /\ seen = {}
    /\ pidx = 1
    /\ files_scanned = <<>>
    /\ all_packages = <<>>
    /\ result = None
    /\ requests = <<>>
    /\ lock_texts = <<>>
    /\ pkgs = <<>>
    /\ strategy = "none"
    /\ passed_in = <<>>
    \* the lookup is not running
    /\ purls = <<>> /\ max_batch_size = 0 /\ max_retries = 0 /\ lpc = "off"
    /\ i = 0 /\ batch = <<>> /\ attempt = 0 /\ fb_errors = <<>>
    /\ fb_rate_limited = FALSE
    /\ ret = [items |-> <<>>, rate_limited |-> FALSE, errors |-> <<>>]
    /\ results = <<>> /\ rate_limited_seen = FALSE /\ all_errors = <<>>
    /\ posts = <<>> /\ batches = <<>>
    /\ context = <<>> /\ input_packages = <<>>
    /\ auth_email = None /\ auth_token = None
    /\ headers = NoHeaders /\ returned = <<>>
    /\ retry_backoff_seconds = DefaultBackoff /\ sleeps = <<>>
    \* the session manager is not in use
    /\ _session = None /\ _streams = None /\ _tools = None
    /\ contexts = <<>> /\ sessions = <<>> /\ task = <<>> /\ calls = 0

WalkNext == FallbackSkip \/ SubtreeFetch \/ FallbackEnd

WalkSpec == WalkInit /\ [][WalkNext]_vars

\* The loop is sequential code of one coroutine, and every request of the
\* client ends: with an answer, or after timeout=30 (line 276) with a
\* transport failure.
WalkLiveSpec ==
    WalkInit /\ [][WalkNext]_vars
    /\ WF_vars(FallbackSkip) /\ WF_vars(SubtreeFetch) /\ WF_vars(FallbackEnd)

ParserSpec == ParserInit /\ [][ParserNext]_vars

ContextSpec == ContextInit /\ [][ContextNext]_vars

ProviderSpec == ProviderInit /\ [][ProviderNext]_vars

\* The event loop runs _run whenever it can go on, and every POST that was sent
\* is answered or is never answered; nothing makes the caller cancel.
ProviderLiveSpec ==
    ProviderInit /\ [][ProviderNext]_vars /\ WF_vars(RunStep) /\ WF_vars(PostStep)

\* =========================================================================
\*  Properties of the vulnerability batch client (checked under LookupSpec)
\* =========================================================================

\* The positions in posts of the attempts of the b-th batch.
PostsOf(b) == { k \in DOMAIN posts : posts[k].batch = b }

Failed(o) == o # "200"

\* Every one of the max_retries attempts of the b-th batch was made and failed.
Exhausted(b) ==
    /\ max_retries >= 1
    /\ Cardinality(PostsOf(b)) = max_retries
    /\ \A k \in PostsOf(b) : Failed(posts[k].outcome)

\* The b-th batch got a 200 whose body was decoded.
Succeeded(b) == \E k \in PostsOf(b) : posts[k].outcome = "200"

\* C1: when the scan has returned, rate_limited is true if any attempt of any
\* batch was answered 429, and the items of a batch that was answered 200 after
\* a 429 are in results.
C1_RateLimitedIfAny429 ==
    lpc = "done" =>
        /\ (\E k \in DOMAIN posts : posts[k].outcome = "429") => rate_limited_seen
        /\ \A b \in 1..Len(batches) :
              Succeeded(b) => Range(batches[b]) \subseteq DOMAIN results

\* C2: a batch whose max_retries attempts all failed hands back no items and
\* one error per attempt; the scan does not raise once it has started posting,
\* every batch of the input is still issued, the error list holds one entry per
\* failed attempt and the items of the batches that succeeded are in results.
C2_ExhaustedBatch ==
    /\ (lpc = "aggregate" /\ Exhausted(Len(batches))) =>
          /\ ret.items = <<>>
          /\ Len(ret.errors) = max_retries
    /\ posts # <<>> => lpc # "raised"
    /\ lpc = "done" =>
          /\ max_batch_size >= 1 => Len(batches) = CeilDiv(Len(purls), max_batch_size)
          /\ Len(all_errors) = Cardinality({ k \in DOMAIN posts : Failed(posts[k].outcome) })
          /\ \A b \in 1..Len(batches) :
                Succeeded(b) => Range(batches[b]) \subseteq DOMAIN results

\* C2 witness: a returned scan with a batch that failed max_retries >= 2 times
\* and a later batch that succeeded.
C2_Witness ==
    /\ lpc = "done"
    /\ max_retries >= 2
    /\ \E b, c \in 1..Len(batches) :
          /\ b < c
          /\ Exhausted(b)
          /\ \A k \in PostsOf(b) : posts[k].outcome = "500"
          /\ Succeeded(c)
          /\ Range(batches[c]) \subseteq DOMAIN results
          /\ Len(all_errors) >= max_retries

\* C3 as stated: no attempt of a batch follows an attempt of that batch that
\* was answered with status 200.
C3_NoAttemptAfterStatus200 ==
    \A j, k \in DOMAIN posts :
        (j < k /\ posts[j].batch = posts[k].batch) => StatusOf(posts[j].outcome) # 200

\* C3 amended: a batch gets at most max_retries attempts, numbered 1, 2, ... in
\* the order they are answered, one at a time; no attempt follows a 200 whose
\* body was decoded; after any other outcome (a 200 whose body cannot be decoded
\* included) the next thing that happens to the scan, while attempts remain, is
\* the next attempt of the same batch.
C3_RetryDiscipline ==
    /\ \A b \in 1..Len(batches) : Cardinality(PostsOf(b)) <= max_retries
    /\ \A k \in DOMAIN posts :
          /\ posts[k].attempt = Cardinality({ j \in 1..k : posts[j].batch = posts[k].batch })
          /\ k > 1 => posts[k].batch >= posts[k - 1].batch
    /\ \A j, k \in DOMAIN posts :
          (j < k /\ posts[j].batch = posts[k].batch) => posts[j].outcome # "200"
    /\ \A k \in DOMAIN posts :
          (Failed(posts[k].outcome) /\ posts[k].attempt < max_retries) =>
              IF k = Len(posts)
                THEN lpc = "sleep" \/ (lpc = "post" /\ attempt = posts[k].attempt + 1)
                ELSE /\ posts[k + 1].batch = posts[k].batch
                     /\ posts[k + 1].attempt = posts[k].attempt + 1

\* C3 witness: a returned scan in which a 200 that could not be decoded was
\* followed by a second attempt of its batch, and a decoded 200 ended a batch
\* that had attempts left.
C3_Witness ==
    /\ lpc = "done"
    /\ \E k \in DOMAIN posts :
          /\ k + 1 \in DOMAIN posts
          /\ posts[k].outcome = "200-undecodable"
          /\ posts[k + 1].batch = posts[k].batch
          /\ posts[k + 1].attempt = posts[k].attempt + 1
    /\ \E j \in DOMAIN posts :
          /\ posts[j].outcome = "200"
          /\ posts[j].attempt < max_retries

\* C4: for a batch size m >= 1 the batches issued are contiguous slices of the
\* locator list: when the scan has returned there are ceil(n/m) of them, each
\* of at most m locators and all but the last of exactly m, and their
\* concatenation is the list; 300 locators with m = 128 give batches of 128,
\* 128 and 44; an empty list gives no request.
C4_Partition ==
    /\ (lpc = "done" /\ max_batch_size >= 1) =>
          /\ batches = Partition(purls, max_batch_size)
          /\ Len(batches) = CeilDiv(Len(purls), max_batch_size)
          /\ Flatten(batches) = purls
          /\ \A b \in 1..Len(batches) :
                /\ Len(batches[b]) >= 1
                /\ Len(batches[b]) <= max_batch_size
                /\ b < Len(batches) => Len(batches[b]) = max_batch_size
    /\ LET big == Partition([k \in 1..300 |-> k], 128)
       IN  /\ [b \in DOMAIN big |-> Len(big[b])] = << 128, 128, 44 >>
           /\ Flatten(big) = [k \in 1..300 |-> k]
    /\ purls = <<>> => posts = <<>> /\ batches = <<>>

\* C4 witness: a returned scan of three locators in batches of two and one.
C4_Witness ==
    /\ lpc = "done"
    /\ Len(purls) = 3
    /\ max_batch_size = 2
    /\ Len(batches) = 2
    /\ Len(batches[2]) = 1
    /\ \A b \in 1..2 : PostsOf(b) # {}

\* =========================================================================
\*  Properties of the lockfile discovery (checked under ReaderSpec)
\* =========================================================================

SubtreeRequests == { k \in DOMAIN requests : requests[k].kind = "subtree" }
ContentRequests == { k \in DOMAIN requests : requests[k].kind = "contents" }

\* The recursive listing was answered and decoded.
ListingTaken == requests # <<>> /\ requests[1].outcome = "200"

\* C5: in the fallback traversal no subtree identifier is requested twice.
C5_SubtreeFetchedOnce ==
    \A j, k \in SubtreeRequests : j # k => requests[j].target # requests[k].target

\* C5 witness: the traversal is about to take from the queue an identifier it
\* has already requested (it was enqueued once per parent).
C5_Witness ==
    /\ rpc = "fallback"
    /\ queue # <<>>
    /\ queue[Len(queue)] \in seen
    /\ \E k \in SubtreeRequests :
          requests[k].target = queue[Len(queue)] /\ requests[k].outcome = "200"
    /\ Cardinality(SubtreeRequests) >= 3

\* C6: once the recursive listing is taken, the fallback traversal runs exactly
\* when the listing was truncated and held no lockfile path; otherwise no
\* subtree is requested and the lockfiles fetched are those of the listing.
C6_FallbackIff ==
    ListingTaken =>
        LET empty == t_json.truncated /\ LockPaths(t_json.tree) = <<>>
        IN  /\ (rpc = "fallback" \/ SubtreeRequests # {}) <=> empty
            /\ ~ empty =>
                  /\ paths = LockPaths(t_json.tree)
                  /\ \A k \in ContentRequests :
                        /\ k - 1 \in DOMAIN paths
                        /\ requests[k].target = LockPaths(t_json.tree)[k - 1]
                  /\ rpc = "done" => Cardinality(ContentRequests) = Len(paths)

\* C6 witness: a truncated listing that held a lockfile path, scanned to the
\* end without a subtree request.
C6_Witness ==
    /\ rpc = "done"
    /\ t_json.truncated
    /\ LockPaths(t_json.tree) # <<>>
    /\ t_json.tree # RecursiveListing
    /\ ContentRequests # {}
    /\ SubtreeRequests = {}

\* C7: when the recursive tree request is answered 404 the scan has ended with
\* the not-found error, without a result and without another request.
C7_NotFoundEndsScan ==
    (requests # <<>> /\ requests[1].outcome = "404") =>
        /\ rpc = "raised"
        /\ error = "not-found"
        /\ result = None
        /\ Len(requests) = 1

\* C7 witness: the tree request of a well-formed locator was answered 404.
C7_Witness ==
    /\ requests # <<>>
    /\ requests[1].kind = "tree"
    /\ requests[1].outcome = "404"
    /\ rpc = "raised"

\* C8: a subtree request of the fallback traversal that fails, for whatever
\* reason, does not end the scan.
C8_SubtreeFailureSkipped ==
    \A k \in SubtreeRequests :
        (k = Len(requests) /\ requests[k].outcome # "200") => rpc # "raised"

\* C9: a contents request that fails, for whatever reason, does not end the
\* scan; a scan ends in an error only for a rejected locator or a missing
\* repository or ref.
C9_ContentFailureSkipped ==
    /\ \A k \in ContentRequests :
          (k = Len(requests) /\ requests[k].outcome \notin {"200", "200-not-base64"})
              => rpc # "raised"
    /\ (ContentRequests # {} /\ rpc \in {"raised", "rejected"})
          => error \in {"validation", "parse", "not-found"}

\* A locator is malformed when it lacks the owner or the repository segment or
\* its host is not github.com.
Malformed(url) == Len(PathParts(url)) < 2 \/ url.netloc # S_github_com

\* C10: no request is ever sent for a malformed locator.
C10_MalformedNeverRequested == Malformed(repo_url) => requests = <<>>

\* =========================================================================
\*  Properties of the parser and the deduplicator (checked under ParserSpec)
\* =========================================================================

\* The scan has returned its result.
Returned == result # None

Output == Val(result).packages

\* The records handed to the deduplicator that have the identity key of o,
\* in the order they were handed over.
Merged(o) == SelectSeq(all_packages, LAMBDA p : DedupeKey(p) = DedupeKey(o))

\* The first value of a sequence of optional values that is set.
RECURSIVE FirstSet(_)
FirstSet(vals) ==
    IF vals = <<>> THEN None
    ELSE IF Head(vals) # None THEN Head(vals) ELSE FirstSet(Tail(vals))

\* C11: the record that survives the merge of the records of one identity key
\* has the union of their sourcePaths, and as scope (as isDirect) the first
\* value that is set among them, in input order.
C11_MergeUnionBackfill ==
    Returned =>
        \A n \in DOMAIN Output :
            LET o == Output[n]
                from == Merged(o)
            IN  /\ from # <<>>
                /\ o.paths = UNION { from[j].paths : j \in DOMAIN from }
                /\ o.scope = FirstSet([j \in DOMAIN from |-> from[j].scope])
                /\ o.direct = FirstSet([j \in DOMAIN from |-> from[j].direct])

\* Three records of one key from three files: the first has no scope, the
\* second and the third have different ones; the second one's is kept.
C11_Witness ==
    /\ Returned
    /\ \E n \in DOMAIN Output :
          LET o == Output[n]
              from == Merged(o)
          IN  /\ Len(from) = 3
              /\ Cardinality(o.paths) = 3
              /\ from[1].scope = None
              /\ from[2].scope # None /\ from[3].scope # None
              /\ from[2].scope # from[3].scope
              /\ o.scope = from[2].scope
              /\ from[1].direct = None /\ from[2].direct = None
              /\ o.direct = from[3].direct /\ o.direct # None


\* C12: deduplication is idempotent: the deduplicator, run on its own output,
\* returns the same records (key, sourcePaths, scope and isDirect of each).
C12_DedupeIdempotent ==
    Returned =>
        /\ Range(_dedupe_global(Output)) = Range(Output)
        /\ Len(_dedupe_global(Output)) = Len(Output)

\* A scan in which records were merged and two or more records are left.
C12_Witness ==
    /\ Returned
    /\ Len(Output) >= 2
    /\ Len(all_packages) > Len(Output)
    /\ \E n \in DOMAIN Output : Cardinality(Output[n].paths) >= 2

\* The identity key as the priority rule states it: (vcs, vcsType, repoUrl,
\* commitRef), (released, name, version, ecosystem), (other, kind, name,
\* version); the name stands last, being a sequence of characters.
IdentityKey(p) ==
    IF p.type = Some("vcs") \/ (TruthyS(p.repo_url) /\ TruthyS(p.commit))
      THEN << "vcs", StrOr(p.vcs), StrOr(p.repo_url), StrOr(p.commit), <<>> >>
    ELSE IF TruthyQ(p.name) /\ TruthyS(p.version)
      THEN << "released", StrOr(p.version), StrOr(p.ecosystem), "", SeqOr(p.name) >>
    ELSE << "other", StrOr(p.type), StrOr(p.version), "", SeqOr(p.name) >>

\* The output records an input record has gone into: those with its identity
\* fields and its sourcePaths.
Holders(p) ==
    { n \in DOMAIN Output :
        /\ Output[n].name = p.name /\ Output[n].version = p.version
        /\ Output[n].ecosystem = p.ecosystem /\ Output[n].type = p.type
        /\ Output[n].vcs = p.vcs /\ Output[n].repo_url = p.repo_url
        /\ Output[n].commit = p.commit
        /\ p.paths \subseteq Output[n].paths }

\* C13: every input record goes into one output record, two of them into the
\* same one exactly when their identity keys are equal, so that the output has
\* one record per distinct key and stats.unique_pkgs is the number of distinct
\* keys of the input.
C13_OneRecordPerKey ==
    Returned =>
        LET keys == { IdentityKey(all_packages[j]) : j \in DOMAIN all_packages }
        IN  /\ \A j \in DOMAIN all_packages : Cardinality(Holders(all_packages[j])) = 1
            /\ \A j, k \in DOMAIN all_packages :
                  (IdentityKey(all_packages[j]) = IdentityKey(all_packages[k]))
                  <=> (Holders(all_packages[j]) = Holders(all_packages[k]))
            /\ Len(Output) = Cardinality(keys)
            /\ Val(result).stats.unique_pkgs = Cardinality(keys)

\* Three input records, two of one key and one of another key of the same
\* kind, give two output records.
C13_Witness ==
    /\ Returned
    /\ Len(all_packages) = 3
    /\ Len(Output) = 2
    /\ \E j, k \in DOMAIN all_packages :
          /\ j # k
          /\ IdentityKey(all_packages[j]) # IdentityKey(all_packages[k])
          /\ IdentityKey(all_packages[j])[1] = IdentityKey(all_packages[k])[1]


\* The entries of all lockfiles of the scan that the parser classifies Local.
LocalEntries ==
    { e \in UNION { Range(Val(lock_texts[f].package)) :
                      f \in { g \in DOMAIN lock_texts : Structured(lock_texts[g]) } } :
        \E q \in Range(ExtractEntry(e, <<>>)) : q.type = Some("local") }

\* C14: local dependencies with different path markers stay separate records
\* through parsing and deduplication, and each one is counted in
\* stats.skipped_local.
C14_LocalsStaySeparate ==
    Returned =>
        LET markers == { e.path : e \in LocalEntries }
            locals == { n \in DOMAIN Output : Output[n].type = Some("local") }
        IN  /\ Cardinality(locals) >= Cardinality(markers)
            /\ Val(result).stats.skipped_local >= Cardinality(markers)


\* The packages the parser has emitted and those of the result, if any.
Emitted == Range(all_packages) \cup Range(pkgs) \cup (IF Returned THEN Range(Output) ELSE {})

\* A Released package is one built with an ecosystem (lines 169-176, 222-227).
IsReleased(p) == p.ecosystem # None

\* C15: every Released package of the parser and of the result has a
\* non-empty normalized name, a non-empty version and a non-empty ecosystem.
C15_ReleasedNonEmpty ==
    \A p \in Emitted :
        IsReleased(p) => TruthyQ(p.name) /\ TruthyS(p.version) /\ TruthyS(p.ecosystem)

\* C16: every package of kind "vcs" of the parser and of the result has a
\* repoUrl and a commitRef.
C16_VcsHasRepoAndCommit ==
    \A p \in Emitted :
        p.type = Some("vcs") => p.repo_url # None /\ p.commit # None


\* The lockfile the parser was called on last, and its path.
Parsed == pidx > 1
LastText == lock_texts[pidx - 1]
LastPath == paths[pidx - 1]

\* The kind of package an entry is to give by the order of the rule: released
\* when name and version are there (non-empty), else vcs when the source type
\* is git or vcs (in any case of the letters) or a vcs field is there, else
\* local when a path marker is there, else none.
KindFor(e) ==
    IF e.name # None /\ Val(e.name) # <<>> /\ e.version # None /\ Val(e.version) # ""
      THEN "released"
    ELSE IF \/ (e.source # None /\ Val(e.source).type # None
                /\ Lower(Val(Val(e.source).type)) \in {S_git, S_vcs})
            \/ (e.vcs # None /\ Val(e.vcs) # "")
      THEN "vcs"
    ELSE IF e.path # None /\ Val(e.path) # ""
      THEN "local"
    ELSE "none"

KindOf(p) == IF p.type = None THEN "released" ELSE Val(p.type)

FallbackOutput ==
    /\ Len(pkgs) = Len(LastText.pairs)
    /\ \A j \in DOMAIN pkgs :
          /\ pkgs[j].type = None /\ pkgs[j].vcs = None
          /\ pkgs[j].repo_url = None /\ pkgs[j].commit = None
          /\ pkgs[j].ecosystem = Some("PyPI")

NoErrorSurfaced == error = "none" /\ rpc # "raised"

\* C18 as stated: the regex fallback is applied only to a document that does
\* not parse; it emits no VCS and no Local package, and no error is surfaced.
C18_FallbackOnlyOnParseFailure ==
    Parsed =>
        /\ strategy = "regex" => ~ LastText.toml
        /\ strategy = "regex" => FallbackOutput
        /\ NoErrorSurfaced

\* C18, amended: the regex fallback is applied exactly when the document does
\* not give a table with a list under "package" (it does not parse, or it
\* parses and has no such list); it emits no VCS and no Local package, and no
\* error is surfaced.
C18_FallbackIffNoPackageList ==
    Parsed =>
        /\ strategy = "regex" <=> ~ (LastText.toml /\ LastText.package # None)
        /\ strategy = "regex" => FallbackOutput
        /\ NoErrorSurfaced

\* The fallback has run on a document that parses and has no list under
\* "package", and has emitted the Released package of the pair it found.
C18_Witness ==
    /\ Parsed
    /\ strategy = "regex"
    /\ LastText.toml /\ LastText.package = None
    /\ Len(pkgs) = 1 /\ IsReleased(pkgs[1])

\* The value of direct the rule gives: a boolean is kept, the strings true
\* and false (in any case of the letters) give the boolean, anything else
\* gives no value.
DirectFor(e) ==
    IF e.direct = None THEN None
    ELSE LET d == Val(e.direct)
         IN  IF d.kind = "bool" THEN Some(d.b)
             ELSE IF d.kind = "str" /\ Lower(d.s) = S_true THEN Some(TRUE)
             ELSE IF d.kind = "str" /\ Lower(d.s) = S_false THEN Some(FALSE)
             ELSE None

\* C19: the package of an entry has as isDirect the boolean of the entry's
\* direct key, the boolean the strings true and false name, and no value for
\* anything else.
C19_DirectNormalized ==
    (Parsed /\ strategy = "structured"
       /\ Len(Val(LastText.package)) = 1 /\ Len(pkgs) = 1)
    => pkgs[1].direct = DirectFor(Val(LastText.package)[1])

\* The characters that differ from a character in the case of the letter or
\* the style of the separator only.
Alike(c) ==
    IF c \in Separators THEN Separators
    ELSE {c} \cup UNION { {UpperLetters[k], LowerLetters[k]} :
                            k \in { j \in DOMAIN UpperLetters :
                                      c \in {UpperLetters[j], LowerLetters[j]} } }

\* The names one step from a name: the case of one letter or the style of one
\* separator changed, or a run of separators made one shorter.  Every two
\* names that differ in case and separator runs only are joined by a chain of
\* such steps through names that are no longer than the longer of the two.
Respelled(n) ==
    UNION { { [n EXCEPT ![k] = c] : c \in Alike(n[k]) } : k \in DOMAIN n }

Shortened(n) ==
    { SubSeq(n, 1, k - 1) \o SubSeq(n, k + 1, Len(n)) :
        k \in { j \in 1..(Len(n) - 1) : n[j] \in Separators /\ n[j + 1] \in Separators } }

\* The name of the one entry (or the one pair) of the lockfile parsed last.
LastName ==
    IF strategy = "structured" THEN Val(Val(LastText.package)[1].name)
    ELSE LastText.pairs[1].name

OneNamed ==
    /\ Parsed /\ Len(pkgs) = 1 /\ IsReleased(pkgs[1])
    /\ IF strategy = "structured"
         THEN Len(Val(LastText.package)) = 1
         ELSE Len(LastText.pairs) = 1

\* C20: the normalized name of a package is the normalized name of every
\* name that differs from its name in letter case and separator runs only
\* (foo-bar for Foo_Bar, foo.bar and FOO-BAR), and normalizing it again
\* returns it unchanged.
C20_NormalizeCanonical ==
    OneNamed =>
        LET normalized == Val(pkgs[1].name)
        IN  /\ \A m \in Respelled(LastName) \cup Shortened(LastName) :
                  pep503_normalize(m) = normalized
            /\ LastName \in Spellings => normalized = S_foo_bar
            /\ pep503_normalize(normalized) = normalized

\* A name of mixed case with a run of two separators has been normalized to
\* the name that its respellings and the name with the shorter run give.
C20_Witness ==
    /\ OneNamed
    /\ LastName = << "A", "_", "." >>
    /\ Val(pkgs[1].name) = << "a", "-" >>
    /\ << "a", "_", "." >> \in Respelled(LastName)
    /\ << "A", "-", "." >> \in Respelled(LastName)
    /\ << "A", "." >> \in Shortened(LastName)

\* =========================================================================
\*  Properties of the locator encoder and of the lookup from a scan result
\*  (checked under ContextSpec)
\* =========================================================================

\* _run has built the locators of input.packages.
Encoded == lpc \notin {"context", "invalid", "start", "off"}

\* pkg:<type>/<name>@<version>
Locator(type, name, version) == S_pkg \o type \o S_slash \o name \o S_at \o version

\* C21: the name part of every locator is the normalized name: the locator of
\* a package named "Flask", version "2.3.0", ecosystem "PyPI" is
\* pkg:pypi/flask@2.3.0.
C21_LocatorNameNormalized ==
    Encoded =>
        \A k \in DOMAIN purls :
            LET p == input_packages[k]
            IN  /\ purls[k] = Locator(PurlType(p.ecosystem),
                                      pep503_normalize(p.name), p.version)
                /\ (p.name = S_Flask /\ p.version = S_2_3_0 /\ p.ecosystem = S_PyPI)
                      => purls[k] = Locator(<< "p", "y", "p", "i" >>, S_flask, S_2_3_0)

\* the locator type the fixed table gives, an ecosystem outside it lowercased
TypeInTable(ecosystem) ==
    CASE ecosystem = << "P", "y", "P", "I" >> -> << "p", "y", "p", "i" >>
      [] ecosystem = << "N", "P", "M" >> -> << "n", "p", "m" >>
      [] ecosystem = << "n", "p", "m" >> -> << "n", "p", "m" >>
      [] ecosystem = << "M", "a", "v", "e", "n" >> -> << "m", "a", "v", "e", "n" >>
      [] ecosystem = << "N", "u", "G", "e", "t" >> -> << "n", "u", "g", "e", "t" >>
      [] ecosystem = << "R", "u", "b", "y", "G", "e", "m", "s" >> -> << "g", "e", "m" >>
      [] ecosystem = << "C", "a", "r", "g", "o" >> -> << "c", "a", "r", "g", "o" >>
      [] ecosystem = << "C", "o", "n", "d", "a" >> -> << "c", "o", "n", "d", "a" >>
      [] ecosystem = << "G", "o", "l", "a", "n", "g" >> -> << "g", "o", "l", "a", "n", "g" >>
      [] ecosystem = << "C", "R", "A", "N" >> -> << "c", "r", "a", "n" >>
      [] ecosystem = << "R", "P", "M" >> -> << "r", "p", "m" >>
      [] ecosystem = << "S", "w", "i", "f", "t" >> -> << "s", "w", "i", "f", "t" >>
      [] OTHER -> Lower(ecosystem)

\* C22: the type of every locator is the entry of the fixed table for the
\* package's ecosystem and, for an ecosystem the table does not hold, the
\* ecosystem lowercased; packages with the same name, version and ecosystem
\* get the same locator.
C22_LocatorType ==
    Encoded =>
        /\ \A k \in DOMAIN purls :
              LET p == input_packages[k]
              IN  purls[k] = Locator(TypeInTable(p.ecosystem), p.name, p.version)
        /\ \A j, k \in DOMAIN purls :
              input_packages[j] = input_packages[k] => purls[j] = purls[k]

\* a package of an ecosystem outside the table, written with a capital, was
\* encoded and its locator posted
C22_Witness ==
    /\ lpc = "done"
    /\ Len(posts) > 0
    /\ \E k \in DOMAIN purls :
          /\ input_packages[k].ecosystem = S_Hex
          /\ purls[k] = Locator(<< "h", "e", "x" >>, S_flask, S_2_3_0)

\* The context object a locator can come from: it has a name and a version
\* that are not blank.
Named(obj) ==
    /\ obj.name # None /\ Strip(Val(obj.name)) # <<>>
    /\ obj.version # None /\ Strip(Val(obj.version)) # <<>>
    /\ obj.ecosystem # None

\* C23: every coordinate of every POST is the locator of a package of the scan
\* result that has a name and a version; nothing is posted for a VCS or Local
\* package.
C23_OnlyNamedPackagesPosted ==
    \A k \in DOMAIN posts : \A c \in Range(posts[k].coords) :
        \E j \in DOMAIN context :
            /\ Named(context[j])
            /\ c = Locator(TypeInTable(Val(context[j].ecosystem)),
                           Strip(Val(context[j].name)), Strip(Val(context[j].version)))

\* a scan result of two Released packages was posted
C23_Witness ==
    /\ context = << ReleasedFlask, ReleasedRequests >>
    /\ Len(posts) > 0
    /\ Len(posts[1].coords) = 2

\* The scan result holds an entry no locator can be built from next to a
\* Released package.
Mixed == (\E j \in DOMAIN context : ~Named(context[j]))
         /\ (\E j \in DOMAIN context : Named(context[j]))

\* the locators of the Released packages of the scan result
ReleasedLocators ==
    { Locator(TypeInTable(Val(context[j].ecosystem)), Strip(Val(context[j].name)),
              Strip(Val(context[j].version))) : j \in { n \in DOMAIN context : Named(context[n]) } }

\* C24: an entry that cannot be converted to a locator is dropped and is no
\* hard error: a scan result that holds one next to Released packages does not
\* end the lookup with a validation error, and when the lookup has returned
\* every Released package was posted.
C24_MalformedEntryDropped ==
    Mixed =>
        /\ lpc # "invalid"
        /\ lpc = "done" =>
              \A c \in ReleasedLocators :
                  \E k \in DOMAIN posts : c \in Range(posts[k].coords)

\* =========================================================================
\*  Properties of the lookup under any provider and a cancelling caller
\*  (checked under ProviderSpec and ProviderLiveSpec)
\* =========================================================================

\* a credential the caller supplied: given and not empty
Supplied(x) == x # None /\ Val(x) # ""

\* C25: within one scan every POST attempt of every batch, retries included,
\* carries the same headers: an Authorization header, Basic with email:token,
\* if and only if both an email and a token were supplied.
C25_SameHeadersEveryPost ==
    /\ \A j, k \in DOMAIN posts : posts[j].headers = posts[k].headers
    /\ \A k \in DOMAIN posts :
          posts[k].headers.authorization =
              IF Supplied(auth_email) /\ Supplied(auth_token)
                THEN Some([scheme |-> "Basic",
                           userpass |-> << Val(auth_email), ":", Val(auth_token) >>])
                ELSE None

\* with both credentials supplied, two batches were posted, one of them twice
C25_Witness ==
    /\ Supplied(auth_email) /\ Supplied(auth_token)
    /\ \E j, k \in DOMAIN posts :
          /\ posts[j].batch = 1 /\ posts[j].attempt = 2
          /\ posts[k].batch = 2
          /\ posts[k].headers.authorization # None

\* C26: the results map is keyed by input purl: every key of results is one of
\* the locators sent and maps to a report whose purl field is the key.
C26_KeyedByInputPurl ==
    \A key \in DOMAIN results :
        /\ \E k \in DOMAIN posts : key \in Range(posts[k].coords)
        /\ results[key].purl = key

\* the orders the batches can be aggregated in
Orders(n) == { f \in [1..n -> 1..n] : \A a, b \in 1..n : f[a] = f[b] => a = b }

\* the report _run builds from the values of _fetch_batch in the order given
RECURSIVE AggregateAll(_, _)
AggregateAll(rets, acc) ==
    IF rets = <<>> THEN acc
    ELSE AggregateAll(Tail(rets),
                      [results |-> Merge(acc.results, Head(rets).items),
                       rate_limited |-> acc.rate_limited \/ Head(rets).rate_limited,
                       errors |-> acc.errors \o Head(rets).errors])

EmptyReport == [results |-> <<>>, rate_limited |-> FALSE, errors |-> <<>>]

Count(seq, e) == Cardinality({ k \in DOMAIN seq : seq[k] = e })
SameCollection(a, b) ==
    /\ Len(a) = Len(b)
    /\ \A e \in Range(a) \cup Range(b) : Count(a, e) = Count(b, e)

\* the report is the same whatever order the batches are aggregated in
OrderIndependent ==
    \A f \in Orders(Len(returned)) :
        LET out == AggregateAll([k \in 1..Len(returned) |-> returned[f[k]]], EmptyReport)
        IN  /\ out.results = results
            /\ out.rate_limited = rate_limited_seen
            /\ SameCollection(out.errors, all_errors)

\* C27: the report returned does not depend on the order of the batches: the
\* same results, rate_limited true if and only if some batch was answered 429,
\* and the errors of all batches.
C27_OrderOfBatchesIrrelevant ==
    lpc = "done" =>
        /\ OrderIndependent
        /\ rate_limited_seen = (\E k \in DOMAIN posts : posts[k].outcome = "429")
        /\ SameCollection(all_errors,
                          Flatten([k \in 1..Len(returned) |-> returned[k].errors]))

\* _run has ended: it returned, it raised, or the cancellation left it.
Ended == lpc \in {"done", "raised", "cancelled"}

\* C28: every POST attempt is bounded by the per-request timeout, so a POST
\* the provider never answers ends as a failure that is recorded and retried:
\* every lookup eventually ends.
C28_LookupEnds == <>Ended

\* what _run has handed back to its caller: the report, None if there is none
Report ==
    IF lpc = "done"
      THEN Some([results |-> results, rate_limited |-> rate_limited_seen,
                 errors |-> all_errors])
      ELSE None

\* C29: when the caller cancels the lookup after some batches were aggregated,
\* no further POST is sent and the lookup returns a report that holds the
\* results aggregated so far.
C29_CancelReturnsPartialReport ==
    (lpc = "cancelled" /\ Len(returned) > 0) =>
        /\ Report # None
        /\ Val(Report).results = results

\* =========================================================================
\*  The deduplicator and the list it is given (checked under ParserSpec)
\* =========================================================================

\* C30: deduplication leaves every record of the list passed in unchanged:
\* sourcePaths, scope and isDirect of each are the same after as before.
C30_DedupeLeavesInputUnchanged ==
    Returned =>
        /\ Len(passed_in) = Len(all_packages)
        /\ \A k \in DOMAIN all_packages :
              /\ passed_in[k].paths = all_packages[k].paths
              /\ passed_in[k].scope = all_packages[k].scope
              /\ passed_in[k].direct = all_packages[k].direct

\* =========================================================================
\*  Backoff, merging and diagnostics of the batch client
\* =========================================================================

\* The sleeps that followed the k-th POST and have ended.
SleepsAfter(k) ==
    { n \in DOMAIN sleeps : /\ sleeps[n].batch = posts[k].batch
                            /\ sleeps[n].attempt = posts[k].attempt }

\* The backoff discipline, for a given notion of a failed attempt: a sleep
\* follows attempt k exactly when the attempt failed and k < max_retries, it
\* lasts backoff^k, and attempt k + 1 is issued only when it has ended.
BackoffDiscipline(failed(_)) ==
    /\ \A n \in DOMAIN sleeps :
          /\ \E k \in DOMAIN posts :
                /\ n \in SleepsAfter(k)
                /\ failed(posts[k].outcome)
                /\ posts[k].attempt < max_retries
          /\ sleeps[n].seconds.num = retry_backoff_seconds.num ^ sleeps[n].attempt
          /\ sleeps[n].seconds.den = retry_backoff_seconds.den ^ sleeps[n].attempt
    /\ \A k \in DOMAIN posts :
          /\ Cardinality(SleepsAfter(k)) <= 1
          /\ (failed(posts[k].outcome) /\ posts[k].attempt < max_retries) =>
                \/ k = Len(posts) /\ lpc = "sleep"
                \/ SleepsAfter(k) # {}
          /\ posts[k].attempt > 1 =>
                \E n \in DOMAIN sleeps :
                    /\ sleeps[n].batch = posts[k].batch
                    /\ sleeps[n].attempt = posts[k].attempt - 1
    /\ lpc = "sleep" =>
          /\ posts # <<>>
          /\ failed(posts[Len(posts)].outcome)
          /\ posts[Len(posts)].attempt < max_retries

\* an attempt that ended with a status other than 200 or in a transport failure
NoStatus200(o) == StatusOf(o) # 200

\* C31 as stated: a backoff sleep of backoff^k follows attempt k exactly when
\* attempt k ended with a non-200 status or a transport failure and k is below
\* the maximum; the next attempt is issued only after the sleep.
C31_BackoffAfterNon200 == BackoffDiscipline(NoStatus200)

\* C31 amended: the same with a 200 whose body cannot be decoded counted as a
\* failed attempt: a sleep of backoff^k follows attempt k exactly when the
\* attempt did not end in a decoded 200 and k is below the maximum; none
\* follows a decoded 200 or the last attempt; the next attempt is issued only
\* after the sleep has ended.
C31_BackoffAfterFailure == BackoffDiscipline(Failed)

\* a batch slept 1.5 s after its first attempt and 2.25 s after its second,
\* the second a 200 that could not be decoded, and failed a third time
C31_Witness ==
    /\ lpc = "done"
    /\ Len(posts) = 3
    /\ posts[2].outcome = "200-undecodable"
    /\ posts[3].outcome = "500"
    /\ Len(sleeps) = 2
    /\ sleeps[1].seconds = [num |-> 3, den |-> 2]
    /\ sleeps[2].seconds = [num |-> 9, den |-> 4]

\* =========================================================================
\*  The order of the deduplicated records (checked under ParserSpec)
\* =========================================================================

\* The identity keys of a list of records, each once, in the order in which
\* they first occur.
RECURSIVE KeysInOrder(_, _)
KeysInOrder(records, found) ==
    IF records = <<>> THEN found
    ELSE IF \E n \in DOMAIN found : found[n] = IdentityKey(Head(records))
      THEN KeysInOrder(Tail(records), found)
      ELSE KeysInOrder(Tail(records), Append(found, IdentityKey(Head(records))))

\* C32: the deduplicated output lists the records in the order in which their
\* identity keys are first met in the input: its n-th record has the n-th
\* distinct key of the input.
C32_FirstEncounterOrder ==
    Returned =>
        LET keys == KeysInOrder(all_packages, <<>>)
        IN  /\ Len(Output) = Len(keys)
            /\ \A n \in DOMAIN Output : IdentityKey(Output[n]) = keys[n]

\* three input records of two keys, the third of the key of the first, gave
\* two output records in the order of the first two
C32_Witness ==
    /\ Returned
    /\ Len(all_packages) >= 3
    /\ Len(Output) = 2
    /\ IdentityKey(all_packages[1]) # IdentityKey(all_packages[2])
    /\ IdentityKey(all_packages[3]) = IdentityKey(all_packages[1])
    /\ IdentityKey(Output[1]) = IdentityKey(all_packages[1])
    /\ IdentityKey(Output[2]) = IdentityKey(all_packages[2])

\* The items of the 200 answers aggregated so far, in the order processed.
Processed == Flatten([k \in 1..Len(returned) |-> returned[k].items])

\* the key the merging rule gives an item: the coordinates it echoes, else its
\* purl field, else none (<< >>)
RuleKey(item) ==
    IF item.coordinates # <<>> THEN item.coordinates
    ELSE IF item.purl # <<>> THEN item.purl
    ELSE <<>>

ErrorOf(post) ==
    IF post.outcome \in {"429", "500"}
      THEN [kind |-> "http", status |-> StatusOf(post.outcome), size |-> Len(post.coords)]
      ELSE [kind |-> "request", status |-> 0, size |-> 0]

\* The error list has one entry per attempt that failed, for a given notion
\* of failed, in the order of the attempts (batch by batch).
OneErrorPerFailure(failed(_)) ==
    lpc = "done" =>
        LET bad == SelectSeq(posts, LAMBDA p : failed(p.outcome))
        IN  /\ Len(all_errors) = Len(bad)
            /\ \A n \in DOMAIN bad : all_errors[n] = ErrorOf(bad[n])

\* C34 as stated: the error list holds exactly one entry per attempt that
\* ended with a non-200 status or a transport failure, over all batches, in
\* batch order and then attempt order.
C34_OneErrorPerNon200 == OneErrorPerFailure(NoStatus200)

\* C34 amended: the same with a 200 whose body cannot be decoded counted as a
\* failed attempt (it is recorded as a request error): one entry per attempt
\* that did not end in a decoded 200, the failed attempts of a batch that
\* succeeded later included, in batch order and then attempt order.
C34_OneErrorPerFailure == OneErrorPerFailure(Failed)

\* a first batch failed with 429 and then succeeded, a second batch failed
\* twice: three errors in that order
C34_Witness ==
    /\ lpc = "done"
    /\ Len(posts) = 4
    /\ posts[1].outcome = "429" /\ posts[2].outcome = "200"
    /\ posts[3].outcome = "transport" /\ posts[4].outcome = "500"
    /\ posts[3].batch = 2
    /\ Len(all_errors) = 3
    /\ all_errors[1].status = 429 /\ all_errors[2].kind = "request"
    /\ all_errors[3].status = 500

\* C35: a report with no error and rate_limited false means that every batch
\* was answered 200: every input locator was sent in a POST that succeeded.
C35_CleanReportMeansAllQueried ==
    (lpc = "done" /\ all_errors = <<>> /\ ~rate_limited_seen) =>
        \A n \in DOMAIN input_packages :
            \E k \in DOMAIN posts :
                /\ posts[k].outcome = "200"
                /\ to_purl(input_packages[n]) \in Range(posts[k].coords)

\* -------------------------------------------------------------------------
\* C36  The fallback traversal terminates over every finite set of subtree
\*      identifiers, shared and cyclic references included: eventually the
\*      work queue is empty and the scan is at the lockfile fetch stage.
\* -------------------------------------------------------------------------
\* the loop itself always ends, whatever the trees list
WalkEnds == <>(rpc # "fallback")

\* ... and it ends at the fetch stage
C36_TraversalReachesFetchStage == <>(rpc = "contents" /\ queue = <<>>)

\* -------------------------------------------------------------------------
\* C37  Every lockfile path the discovery produces is the lockfile's full
\*      path from the repository root: the fallback traversal yields for a
\*      lockfile blob the path the recursive listing reports for it, two
\*      lockfiles in different directories never yield the same path, and the
\*      content request made with the path addresses that blob.
\* -------------------------------------------------------------------------
\* the full paths under which the recursive listing reports a blob
FullPathsOf(sha) ==
    { RecursiveListing[k].path : k \in { n \in DOMAIN RecursiveListing :
                                           RecursiveListing[n].type = "blob"
                                           /\ RecursiveListing[n].sha = sha } }

\* the lockfile blobs of the subtrees the fallback traversal has listed
ListedLockBlobs ==
    UNION { { TreeOf(requests[k].target)[n].sha :
                n \in { m \in DOMAIN TreeOf(requests[k].target) :
                          /\ TreeOf(requests[k].target)[m].type = "blob"
                          /\ EndsWith(TreeOf(requests[k].target)[m].path, S_uv_lock) } } :
            k \in { r \in DOMAIN requests : /\ requests[r].kind = "subtree"
                                           /\ requests[r].outcome = "200" } }

C37_LockfilePathsAreFullPaths ==
    rpc \in {"contents", "done"} =>
        /\ \A sha \in ListedLockBlobs : FullPathsOf(sha) \cap Range(paths) # {}
        /\ \A k, n \in DOMAIN paths : paths[k] = paths[n] => k = n
        /\ \A k \in DOMAIN paths : BlobAt(paths[k]) # None

\* -------------------------------------------------------------------------
\* C38  When connect raises at any step the manager stays disconnected: a
\*      later get_session or get_tools connects again, and no session whose
\*      initialization did not complete is held or handed out.
\* -------------------------------------------------------------------------
\* no task is inside connect
NoConnectRunning ==
    \A c \in Callers : task[c].pc \notin {"stream_enter", "session_enter", "initialize"}

C38_FailedConnectLeavesDisconnected ==
    NoConnectRunning =>
        /\ _session # None => sessions[Val(_session)].initialized
        /\ \A c \in Callers :
              (task[c].pc = "returned" /\ task[c].op = "get_session"
                 /\ task[c].ret # None) => sessions[Val(task[c].ret)].initialized

\* -------------------------------------------------------------------------
\* C39  The tools get_tools(github_pat) returns are bound to a session that
\*      was opened with that github_pat.
\* -------------------------------------------------------------------------
TokenOf(session) == contexts[sessions[session].context].pat

C39_ToolsBelongToCallersToken ==
    \A c \in Callers :
        (task[c].pc = "returned" /\ task[c].op = "get_tools" /\ task[c].ret # None)
            => TokenOf(Val(task[c].ret)) = task[c].pat

\* -------------------------------------------------------------------------
\* C40  Under every interleaving of concurrent calls at most one stream and
\*      one client session are open at a time, and once close has run and the
\*      manager is disconnected nothing that was opened is still open.
\* -------------------------------------------------------------------------
OpenContexts == { k \in DOMAIN contexts : contexts[k].state = "open" }
OpenSessions == { k \in DOMAIN sessions : sessions[k].state = "entered" }

Disconnected ==
    /\ _session = None /\ _streams = None /\ _tools = None
    /\ \A c \in Callers : task[c].pc \in {"idle", "returned", "raised"}

C40_OneConnectionAndCloseReleasesAll ==
    /\ Cardinality(OpenContexts) <= 1
    /\ Cardinality(OpenSessions) <= 1
    /\ Disconnected => OpenContexts = {} /\ OpenSessions = {}

=============================================================================
